---- MODULE Spec2Model ----
(***************************************************************************)
(* A model of the ingestion, normalization and storage core of insidecve.  *)
(*                                                                         *)
(* Text that the program only passes through (dates, descriptions,         *)
(* vectors, vendor names) is an opaque TLA+ string.  Text that the program *)
(* parses (the comma/semicolon joined fields, CPE strings, score badges)   *)
(* is a sequence of lexemes: each lexeme is either one delimiter or        *)
(* whitespace character or a word that contains none of them.              *)
(***************************************************************************)
EXTENDS Integers, Sequences, FiniteSets, Bags, TLC

VARIABLES
    cves,             \* table cves: bag of rows, PRIMARY KEY cve_id
    weaknesses,       \* table weaknesses: bag of rows, PRIMARY KEY (cve_id, cwe_id)
    cve_references,   \* table cve_references: bag of rows, no key
    products,         \* table products: bag of rows, no key
    vendor_metadata,  \* table vendor_metadata: bag of rows, PRIMARY KEY vendor_id
    is_kev,           \* column cves.is_kev: the cve_ids whose row has is_kev = TRUE
    kev_result,       \* outcome of the KEV pass of the last load_and_process
    last,             \* the storage operation performed last, with its arguments
    pc,               \* position of build_vendor_data / of the pipeline
    run,              \* the locals of the running build_vendor_data
    nvd_data,         \* normalize: the NVD payload
    v5_data,          \* normalize: the CVE-list-v5 payload
    record,           \* normalize: the record returned
    score_elems,      \* _extract_details: the texts of the div.cvssbox badges
    details,          \* _extract_details: the details extracted
    files,            \* the files on disk: cache entries, vendor cache, KEV cache
    net,              \* the network requests and delays of the running call
    clock,            \* the time of day, in hours
    kev_checker,      \* the process-wide KEVChecker singleton
    result            \* the value returned by the last fetch or scrape

vars == <<cves, weaknesses, cve_references, products, vendor_metadata,
          is_kev, kev_result, last, pc, run, nvd_data, v5_data, record,
          score_elems, details, files, net, clock, kev_checker,
          result>>

storeVars == <<cves, weaknesses, cve_references, products, vendor_metadata>>
normVars == <<nvd_data, v5_data, record>>
extractVars == <<score_elems, details>>
envVars == <<files, net, clock, kev_checker, result>>

-----------------------------------------------------------------------------
(* Python values *)

\* Python None in an opaque text field
None == "<None>"

\* Python None in a field that is otherwise a lexeme sequence
NoneStr == <<None>>

\* No file on disk, no network traffic, no singleton, nothing returned yet
InitEnv ==
    /\ files = <<>>
    /\ net = <<>>
    /\ clock = 0
    /\ kev_checker = None
    /\ result = None

\* Python None in a numeric field; a number x is <<x>>
NoneNum == <<>>

\* Python None where a JSON payload is expected; a payload d is <<d>>
NoPayload == <<>>

\* a dict without keys
EmptyDict == [k \in {} |-> k]

\* dict.get(k, default)
Get(d, k, default) == IF k \in DOMAIN d THEN d[k] ELSE default

\* bool(s) of a lexeme-sequence field: None and "" are falsy
Truthy(s) == s # <<>> /\ s # NoneStr

\* bool(t) of an opaque text field
TruthyText(t) == t # "" /\ t # None

\* str.strip(): drop leading and trailing whitespace
RECURSIVE LStrip(_)
LStrip(s) == IF s # <<>> /\ Head(s) = " " THEN LStrip(Tail(s)) ELSE s

RECURSIVE RStrip(_)
RStrip(s) ==
    IF s # <<>> /\ s[Len(s)] = " " THEN RStrip(SubSeq(s, 1, Len(s) - 1)) ELSE s

Strip(s) == RStrip(LStrip(s))

\* str.split(sep): the pieces between the occurrences of sep; "".split(sep) = [""]
RECURSIVE SplitFrom(_, _, _)
SplitFrom(s, sep, cur) ==
    IF s = <<>> THEN <<cur>>
    ELSE IF Head(s) = sep THEN <<cur>> \o SplitFrom(Tail(s), sep, <<>>)
    ELSE SplitFrom(Tail(s), sep, Append(cur, Head(s)))

Split(s, sep) == SplitFrom(s, sep, <<>>)

\* sep.join(parts)
RECURSIVE Join(_, _)
Join(parts, sep) ==
    IF parts = <<>> THEN <<>>
    ELSE IF Len(parts) = 1 THEN parts[1]
    ELSE parts[1] \o <<sep>> \o Join(Tail(parts), sep)

\* the elements of a sequence
Range(s) == {s[i] : i \in DOMAIN s}

\* all sequences over S of length at most n
SeqsUpTo(S, n) == UNION {[1..k -> S] : k \in 0..n}

-----------------------------------------------------------------------------
(* Storage: the tables and the SQL statements used on them *)

\* DELETE FROM t WHERE cve_id = ?
DeleteWhereCve(t, cve_id) ==
    [row \in {x \in DOMAIN t : x.cve_id # cve_id} |-> t[row]]

\* INSERT INTO t VALUES (row), for a table without a key
Insert(t, row) == t (+) SetToBag({row})

\* INSERT OR IGNORE INTO weaknesses: nothing when the key (cve_id, cwe_id) is there
InsertOrIgnore(t, row) ==
    IF \E x \in DOMAIN t : x.cve_id = row.cve_id /\ x.cwe_id = row.cwe_id
    THEN t
    ELSE Insert(t, row)

\* a plain INSERT INTO cves on a table without the primary key
InsertOrReplaceCve_Insert(t, row) == Insert(t, row)

\* INSERT OR REPLACE INTO cves: the row of the same cve_id is replaced
InsertOrReplaceCve(t, row) == Insert(DeleteWhereCve(t, row.cve_id), row)

\* INSERT OR REPLACE INTO vendor_metadata: the row of the same vendor_id is replaced
\* DELETE FROM vendor_metadata before the INSERT: only the new row is left
InsertOrReplaceVendor_Only(t, row) == Insert(EmptyBag, row)

InsertOrReplaceVendor(t, row) ==
    Insert([x \in {y \in DOMAIN t : y.vendor_id # row.vendor_id} |-> t[x]], row)

\* the rows of a table that belong to one CVE, with their multiplicities
RowsOf(t, cve_id) == [row \in {x \in DOMAIN t : x.cve_id = cve_id} |-> t[row]]

\* the rows of a table that belong to other CVEs
RowsNotOf(t, cve_id) == DeleteWhereCve(t, cve_id)

-----------------------------------------------------------------------------
(* Storage.save_cve *)

\* the twelve values of the INSERT OR REPLACE INTO cves
CveRow(r, vendor_id) ==
    [cve_id |-> r.cve_id,
     vendor_id |-> IF TruthyText(vendor_id) THEN vendor_id
                   ELSE Get(r, "vendor_id", None),
     published_date |-> r.published_date,
     last_modified_date |-> r.last_modified_date,
     description_en |-> r.description_en,
     source_flags |-> r.source_flags,
     cvss_v31_base_score |-> r.cvss_v31_base_score,
     cvss_v31_severity |-> r.cvss_v31_severity,
     cvss_v31_vector |-> r.cvss_v31_vector,
     cvss_v4_base_score |-> r.cvss_v4_base_score,
     cvss_v4_severity |-> r.cvss_v4_severity,
     cvss_v4_vector |-> r.cvss_v4_vector]

\* 1. Upsert CVE
UpsertCve(t, r, vendor_id) == InsertOrReplaceCve(t, CveRow(r, vendor_id))

\* the loop over record["cwe_ids"].split(",")
RECURSIVE InsertCwes(_, _, _)
InsertCwes(t, cve_id, cwes) ==
    IF cwes = <<>> THEN t
    ELSE LET cwe == Head(cwes)
             t1 == IF Strip(cwe) # <<>>
                   THEN InsertOrIgnore(t, [cve_id |-> cve_id, cwe_id |-> Strip(cwe)])
                   ELSE t
         IN  InsertCwes(t1, cve_id, Tail(cwes))

\* 2. Update Weaknesses
UpdateWeaknesses(t, r) ==
    LET cleared == DeleteWhereCve(t, r.cve_id)
    IN  IF Truthy(r.cwe_ids)
        THEN InsertCwes(cleared, r.cve_id, Split(r.cwe_ids, ","))
        ELSE cleared

\* the loop over record["reference_urls"].split(",")
RECURSIVE InsertUrls(_, _, _)
InsertUrls(t, cve_id, urls) ==
    IF urls = <<>> THEN t
    ELSE LET url == Head(urls)
             t1 == IF Strip(url) # <<>>
                   THEN Insert(t, [cve_id |-> cve_id, url |-> Strip(url)])
                   ELSE t
         IN  InsertUrls(t1, cve_id, Tail(urls))

\* 3. Update References
UpdateReferences(t, r) ==
    LET cleared == DeleteWhereCve(t, r.cve_id)
    IN  IF Truthy(r.reference_urls)
        THEN InsertUrls(cleared, r.cve_id, Split(r.reference_urls, ","))
        ELSE cleared

\* Simple CPE 2.3 parser: vendor, product and version by position, else "unknown"
CpeField(parts, i) == IF Len(parts) > i THEN parts[i + 1] ELSE <<"unknown">>

ProductKey(cve_id, prod) ==
    LET parts == Split(prod, ":")
    IN  [cve_id |-> cve_id,
         raw_cpe |-> prod,
         vendor |-> CpeField(parts, 3),
         product |-> CpeField(parts, 4),
         version |-> CpeField(parts, 5)]

\* the loop over record["products"].split(";"), with its unique_products set
RECURSIVE InsertProducts(_, _, _, _)
InsertProducts(t, cve_id, prods, unique_products) ==
    IF prods = <<>> THEN t
    ELSE LET prod == Head(prods)
             key == ProductKey(cve_id, prod)
         IN  IF Strip(prod) = <<>>
             THEN InsertProducts(t, cve_id, Tail(prods), unique_products)
             ELSE IF key \notin unique_products
             THEN InsertProducts(Insert(t, key), cve_id, Tail(prods),
                                 unique_products \cup {key})
             ELSE InsertProducts(t, cve_id, Tail(prods), unique_products)

\* save_cve without its DELETE FROM products: the rows are appended
UpdateProducts_Append(t, r) ==
    IF Truthy(r.products)
    THEN InsertProducts(t, r.cve_id, Split(r.products, ";"), {})
    ELSE t

\* 4. Update Products
UpdateProducts(t, r) ==
    LET cleared == DeleteWhereCve(t, r.cve_id)
    IN  IF Truthy(r.products)
        THEN InsertProducts(cleared, r.cve_id, Split(r.products, ";"), {})
        ELSE cleared

\* Storage.add_product_mapping: the row inserted
MappingRow(cve_id, product_name, vendor_name) ==
    [cve_id |-> cve_id,
     raw_cpe |-> <<>>,
     vendor |-> <<vendor_name>>,
     product |-> product_name,
     version |-> <<"*">>]

\* add_product_mapping replacing the associations of the CVE instead of adding one
AddMapping_Replace(t, cve_id, product_name, vendor_name) ==
    Insert(DeleteWhereCve(t, cve_id), MappingRow(cve_id, product_name, vendor_name))

\* Storage.add_product_mapping: the products table afterwards
AddMapping(t, cve_id, product_name, vendor_name) ==
    Insert(t, MappingRow(cve_id, product_name, vendor_name))

\* Storage.update_vendor_metadata: the row written (last_updated is the clock)
VendorRow(vendor_id, vendor_name, cve_count, product_count) ==
    [vendor_id |-> vendor_id, vendor_name |-> vendor_name,
     cve_count |-> cve_count, product_count |-> product_count]

\* a query on cves that matches no row
get_existing_cve_ids_NoRow(t, vendor_id) == {}

\* Storage.get_existing_cve_ids(vendor_id)
get_existing_cve_ids(t, vendor_id) ==
    IF TruthyText(vendor_id)
    THEN {row.cve_id : row \in {x \in DOMAIN t : x.vendor_id = vendor_id}}
    ELSE {row.cve_id : row \in DOMAIN t}

-----------------------------------------------------------------------------
(* Bounds and input domains of the storage specification *)

\* tokens joined into one comma/semicolon separated field
MaxTokens == 2

\* scraper product associations kept per CVE
MaxMappings == 2

CveIds == {"CVE-2024-0001", "CVE-2024-0002"}

VendorIds == {"v1", "v2"}

\* tokens of a cwe_ids field: plain, padded with blanks, blank
CweTokens == {<<"CWE-79">>, <<"CWE-89">>, <<" ", "CWE-79", " ">>, <<" ">>}

\* tokens of a reference_urls field
UrlTokens == {<<"https://a">>, <<"https://b">>, <<" ", "https://a">>, <<" ">>}

CpeWidget == <<"cpe", ":", "2.3", ":", "a", ":", "acme", ":", "widget", ":", "1.0">>

\* tokens of a products field: a full CPE, the same after a blank, a CPE cut
\* after the vendor, blank
CpeTokens ==
    {CpeWidget, <<" ">> \o CpeWidget,
     <<"cpe", ":", "2.3", ":", "a", ":", "acme">>, <<" ">>}

\* the strings sep.join(tokens) of at most MaxTokens tokens, and None
Joined(tokens, sep) ==
    {Join(ts, sep) : ts \in SeqsUpTo(tokens, MaxTokens)} \cup {NoneStr}

\* a record as build_vendor_data and the pipeline hand it to save_cve
BaseRecord(cve_id, vendor_id, description) ==
    [cve_id |-> cve_id, vendor_id |-> vendor_id,
     published_date |-> "2024-01-01", last_modified_date |-> None,
     description_en |-> description, source_flags |-> <<"cvedetails">>,
     cvss_v31_base_score |-> <<980>>, cvss_v31_severity |-> "CRITICAL",
     cvss_v31_vector |-> None,
     cvss_v4_base_score |-> NoneNum, cvss_v4_severity |-> None,
     cvss_v4_vector |-> None,
     cwe_ids |-> <<"CWE-79">>, reference_urls |-> <<>>, products |-> <<>>]

\* the record whose multi-valued fields are varied
VariedRecord == BaseRecord("CVE-2024-0001", "v1", "d1")

\* a record of the second CVE, with rows in every table
OtherRecord ==
    [BaseRecord("CVE-2024-0002", "v1", "d1") EXCEPT
        !.reference_urls = <<"https://b">>, !.products = CpeWidget]

\* the records saved: for the first CVE a record of the vendor scraper
\* (vendor v1), one of the pipeline (no vendor) and every value of one
\* multi-valued field at a time; for the second CVE one record
StoreRecords ==
    {VariedRecord, BaseRecord("CVE-2024-0001", None, "d2"), OtherRecord}
    \cup {[VariedRecord EXCEPT !.cwe_ids = x] : x \in Joined(CweTokens, ",")}
    \cup {[VariedRecord EXCEPT !.reference_urls = x] : x \in Joined(UrlTokens, ",")}
    \cup {[VariedRecord EXCEPT !.products = x] : x \in Joined(CpeTokens, ";")}

ProductNames == {<<"Orion", " ", "Platform">>}

\* the scraper associations stored for a CVE
MappingCount(t, cve_id) ==
    BagCardinality([row \in {x \in DOMAIN t :
                        x.cve_id = cve_id /\ x.raw_cpe = <<>>} |-> t[row]])

\* whether a scraper association is stored for a CVE
HasMapping(t, cve_id) == MappingCount(t, cve_id) > 0

-----------------------------------------------------------------------------
(* The storage operations *)

NoRun == [vendor_id |-> None]

NoKev == [kev_cve_ids |-> {}, raised |-> None, updated_count |-> 0]

\* Storage.save_cve(record, vendor_id)
SaveCve(r, vendor_id) ==
    /\ cves' = UpsertCve(cves, r, vendor_id)
    /\ weaknesses' = UpdateWeaknesses(weaknesses, r)
    /\ cve_references' = UpdateReferences(cve_references, r)
    /\ products' = UpdateProducts(products, r)
    /\ last' = [op |-> "save_cve", cve_id |-> r.cve_id,
                replaced |-> HasMapping(products, r.cve_id), record |-> r]
    /\ UNCHANGED <<vendor_metadata, is_kev, kev_result, pc, run>>
    /\ UNCHANGED <<normVars, extractVars, envVars>>

\* Storage.add_product_mapping(cve_id, product_name, vendor_name)
AddProductMapping(cve_id, product_name, vendor_name) ==
    /\ MappingCount(products, cve_id) < MaxMappings
    /\ products' = AddMapping(products, cve_id, product_name, vendor_name)
    /\ last' = [op |-> "add_product_mapping", cve_id |-> cve_id, replaced |-> FALSE, record |-> None]
    /\ UNCHANGED <<cves, weaknesses, cve_references, vendor_metadata>>
    /\ UNCHANGED <<is_kev, kev_result, pc, run, normVars, extractVars, envVars>>

\* Storage.update_vendor_metadata(vendor_id, vendor_name, cve_count, product_count)
UpdateVendorMetadata(vendor_id, vendor_name, cve_count, product_count) ==
    /\ vendor_metadata' =
           InsertOrReplaceVendor(vendor_metadata,
               VendorRow(vendor_id, vendor_name, cve_count, product_count))
    /\ last' = [op |-> "update_vendor_metadata", cve_id |-> None, replaced |-> FALSE, record |-> None]
    /\ UNCHANGED <<cves, weaknesses, cve_references, products>>
    /\ UNCHANGED <<is_kev, kev_result, pc, run, normVars, extractVars, envVars>>

\* s.update_kev_status(kev_cve_ids): class Storage defines no such method, so
\* the attribute lookup raises AttributeError before any statement runs
UpdateKevStatus(kev_cve_ids) ==
    [kev_cve_ids |-> kev_cve_ids, raised |-> "AttributeError", updated_count |-> 0]

\* the KEV pass of load_and_process, given get_all_kev_cves() = kev_cve_ids
LoadAndProcessKev(kev_cve_ids) ==
    /\ kev_result' = IF kev_cve_ids # {} THEN UpdateKevStatus(kev_cve_ids) ELSE NoKev
    /\ last' = [op |-> "update_kev_status", cve_id |-> None, replaced |-> FALSE, record |-> None]
    /\ UNCHANGED <<storeVars, is_kev, pc, run, normVars, extractVars, envVars>>

InitStore ==
    /\ cves = EmptyBag
    /\ weaknesses = EmptyBag
    /\ cve_references = EmptyBag
    /\ products = EmptyBag
    /\ vendor_metadata = EmptyBag
    /\ is_kev = {}
    /\ kev_result = NoKev
    /\ last = [op |-> "init", cve_id |-> None, replaced |-> FALSE, record |-> None]
    /\ pc = "idle"
    /\ run = NoRun
    /\ nvd_data = NoPayload
    /\ v5_data = NoPayload
    /\ record = None
    /\ score_elems = <<>>
    /\ details = None
    /\ InitEnv

NextStore ==
    \/ \E r \in StoreRecords : SaveCve(r, r.vendor_id)
    \/ \E p \in ProductNames : AddProductMapping(VariedRecord.cve_id, p, "Acme")
    \/ \E n \in {1, 2} : UpdateVendorMetadata("v1", "Acme", n, 1)

SpecStore == InitStore /\ [][NextStore]_vars

\* the records saved before a KEV pass
KevRecords ==
    {BaseRecord(c, "v1", "d1") : c \in CveIds}
    \cup {BaseRecord(c, None, "d2") : c \in CveIds}

NextKev ==
    \/ \E r \in KevRecords : SaveCve(r, r.vendor_id)
    \/ \E c \in CveIds, p \in ProductNames : AddProductMapping(c, p, "Acme")
    \/ \E K \in SUBSET CveIds : LoadAndProcessKev(K)

SpecKev == InitStore /\ [][NextKev]_vars

-----------------------------------------------------------------------------
(* Claims about the storage operations, checked under SpecStore *)

\* the trimmed non-empty tokens of a separated field, None and "" having none
TokenSeq(field, sep) == IF Truthy(field) THEN Split(field, sep) ELSE <<>>

TrimmedTokens(field, sep) ==
    {Strip(t) : t \in Range(TokenSeq(field, sep))} \ {<<>>}

\* how many tokens of a field trim to u
Occurrences(field, sep, u) ==
    Cardinality({i \in DOMAIN TokenSeq(field, sep) : Strip(TokenSeq(field, sep)[i]) = u})

\* the non-blank tokens of a products field, untrimmed as save_cve stores them
CpeTokensOf(field) ==
    {t \in Range(TokenSeq(field, ";")) : Strip(t) # <<>>}

\* the step just taken is a save_cve
IsSave == last'.op = "save_cve"

\* one row, once, for each element of a set of rows
OnceEach(rows) == SetToBag(rows)

\* C1 (as claimed): save_cve(r) is idempotent, and after it the store holds
\* exactly one cves row for r.cve_id, one weaknesses row per unique CWE token,
\* one cve_references row per unique reference URL and one products row per
\* unique (cve_id, raw_cpe, vendor, product, version) tuple of r.
C1_SaveCveIdempotentUniqueRows ==
    [][IsSave =>
         LET r == last'.record IN
           /\ UpsertCve(cves', r, r.vendor_id) = cves'
           /\ UpdateWeaknesses(weaknesses', r) = weaknesses'
           /\ UpdateReferences(cve_references', r) = cve_references'
           /\ UpdateProducts(products', r) = products'
           /\ BagCardinality(RowsOf(cves', r.cve_id)) = 1
           /\ RowsOf(weaknesses', r.cve_id) =
                OnceEach({[cve_id |-> r.cve_id, cwe_id |-> w] :
                             w \in TrimmedTokens(r.cwe_ids, ",")})
           /\ RowsOf(cve_references', r.cve_id) =
                OnceEach({[cve_id |-> r.cve_id, url |-> u] :
                             u \in TrimmedTokens(r.reference_urls, ",")})
           /\ RowsOf(products', r.cve_id) =
                OnceEach({ProductKey(r.cve_id, t) : t \in CpeTokensOf(r.products)})
      ]_vars

\* C2: after save_cve(r) the weaknesses, cve_references and products rows of
\* r.cve_id are exactly the rows derived from r (one weakness per distinct
\* trimmed token, one reference per non-empty token, one product per distinct
\* non-blank token), whatever rows of that CVE earlier saves and scraper
\* associations left, and the rows of every other cve_id are unchanged.
C2_SaveReplacesChildRows ==
    [][IsSave =>
         LET r == last'.record IN
           /\ BagToSet(RowsOf(weaknesses', r.cve_id)) =
                {[cve_id |-> r.cve_id, cwe_id |-> w] :
                    w \in TrimmedTokens(r.cwe_ids, ",")}
           /\ BagToSet(RowsOf(cve_references', r.cve_id)) =
                {[cve_id |-> r.cve_id, url |-> u] :
                    u \in TrimmedTokens(r.reference_urls, ",")}
           /\ \A u \in TrimmedTokens(r.reference_urls, ",") :
                CopiesIn([cve_id |-> r.cve_id, url |-> u], cve_references') =
                    Occurrences(r.reference_urls, ",", u)
           /\ RowsOf(products', r.cve_id) =
                OnceEach({ProductKey(r.cve_id, t) : t \in CpeTokensOf(r.products)})
           /\ \A row \in DOMAIN weaknesses' : weaknesses'[row] = 1
           /\ RowsNotOf(weaknesses', r.cve_id) = RowsNotOf(weaknesses, r.cve_id)
           /\ RowsNotOf(cve_references', r.cve_id) = RowsNotOf(cve_references, r.cve_id)
           /\ RowsNotOf(products', r.cve_id) = RowsNotOf(products, r.cve_id)
           /\ RowsNotOf(cves', r.cve_id) = RowsNotOf(cves, r.cve_id)
    ]_vars

\* C2 witness: a save_cve has just replaced the rows of a CVE that had a
\* scraper association, storing parsed product rows, while the other CVE
\* has rows in every table.
C2_Witness ==
    /\ last.op = "save_cve"
    /\ last.replaced
    /\ last.cve_id = "CVE-2024-0001"
    /\ \E row \in DOMAIN products : row.cve_id = last.cve_id /\ row.vendor = <<"acme">>
    /\ ~HasMapping(products, "CVE-2024-0001")
    /\ \E row \in DOMAIN products : row.cve_id = "CVE-2024-0002"
    /\ \E row \in DOMAIN cve_references : row.cve_id = "CVE-2024-0002"
    /\ \E row \in DOMAIN weaknesses : row.cve_id = "CVE-2024-0002"

\* C3: add_product_mapping(cve_id, product_name, vendor_name) adds exactly one
\* products row (cve_id, '', vendor_name, product_name, '*') and changes no
\* other row of any table; repeated with the same arguments it adds the same
\* row again.
C3_AddProductMappingPureInsert ==
    [][\A c \in CveIds, p \in ProductNames :
         (last'.op = "add_product_mapping" /\ last'.cve_id = c) =>
           LET row == [cve_id |-> c, raw_cpe |-> <<>>, vendor |-> <<"Acme">>,
                       product |-> p, version |-> <<"*">>]
           IN  /\ CopiesIn(row, products') = CopiesIn(row, products) + 1
               /\ \A x \in (DOMAIN products \cup DOMAIN products') \ {row} :
                    CopiesIn(x, products') = CopiesIn(x, products)
               /\ UNCHANGED <<cves, weaknesses, cve_references, vendor_metadata, is_kev>>
    ]_vars

\* C3 witness: the same association was added twice and is stored twice,
\* beside parsed product rows of the same CVE that it left in place.
C3_Witness ==
    /\ last.op = "add_product_mapping"
    /\ \E row \in DOMAIN products :
         /\ row.cve_id = last.cve_id
         /\ row.raw_cpe = <<>>
         /\ row.version = <<"*">>
         /\ products[row] = 2
    /\ \E row \in DOMAIN products : row.cve_id = last.cve_id /\ row.raw_cpe # <<>>

\* the cve_ids stored in the cves table
StoredIds == {row.cve_id : row \in DOMAIN cves}

\* C5 (as claimed): the KEV pass with a set K sets is_kev on exactly the stored
\* rows of K that were unflagged, changes nothing else, and returns how many it
\* flipped: nonzero when K matches an unflagged stored CVE.
C5_UpdateKevStatusFlipsAndCounts ==
    [][(last'.op = "update_kev_status" /\ kev_result'.kev_cve_ids # {}) =>
         LET K == kev_result'.kev_cve_ids
             flipped == (StoredIds \cap K) \ is_kev
         IN  /\ kev_result'.raised = None
             /\ is_kev' = is_kev \cup flipped
             /\ kev_result'.updated_count = Cardinality(flipped)
             /\ UNCHANGED storeVars
    ]_vars

-----------------------------------------------------------------------------
(* build_vendor_data: the vendor-scraper ingestion run *)

\* product names as get_vendor_cves derives them from the listing URLs
BuildProducts == {<<"Widget">>, <<"Orion", " ", "Platform">>}

\* vendor_name of a vendor_id, as the sidebar passes it
VendorName(vendor_id) == IF vendor_id = "v1" THEN "Acme" ELSE "Bolt"

\* a details record as CVEDetailsFetcher._extract_details returns it
DetailsOf(cve_id, description, cwe_id, references) ==
    [cve_id |-> cve_id, description |-> description,
     cvss_v31_base_score |-> <<750>>, cvss_v31_severity |-> "HIGH",
     cvss_vector |-> None, cwe_id |-> cwe_id, cwe_name |-> None,
     published_date |-> "2024-01-01", last_modified |-> None,
     epss_score |-> NoneNum, references |-> references,
     affected_products |-> <<>>]

\* results[cve_id] = {"error": str(e)}
ErrorData == [error |-> "Timeout 30000ms exceeded"]

\* what fetch_cve_details returns for one CVE: the page's details, or an error
FetchResult(cve_id, ok) ==
    IF ok
    THEN DetailsOf(cve_id, "d1", <<"CWE-79">>, <<<<"https://a">>, <<"https://b">>>>)
    ELSE ErrorData

\* the orders in which get_vendor_cves can find CVE ids: no id twice
DiscoveryOrders ==
    {q \in SeqsUpTo(CveIds, Cardinality(CveIds)) :
        \A i, j \in DOMAIN q : i # j => q[i] # q[j]}

\* the sets of products a CVE is found under
DiscoveryProducts == {{<<"Widget">>}, BuildProducts}

\* a discovery result of get_vendor_cves: the CVE ids in the order found, and
\* for each the set of products whose listing pages held it
Discoveries ==
    UNION {{[order |-> o, prods |-> f] :
               f \in [{o[i] : i \in DOMAIN o} -> DiscoveryProducts]} :
           o \in DiscoveryOrders}

\* cve_mapping as a dict: its keys, and the set of a key
MappingKeys(d) == Range(d.order)

\* the first n elements of a list: xs[:n]
Take(xs, n) == SubSeq(xs, 1, IF Len(xs) < n THEN Len(xs) ELSE n)

\* the filter turned round: the ids that are stored are the ones kept
FilterNotIn_In(ids, existing) ==
    SelectSeq(ids, LAMBDA c : c \in existing)

\* [c for c in cve_ids if c not in existing_cves]
RECURSIVE FilterNotIn(_, _)
FilterNotIn(ids, existing) ==
    IF ids = <<>> THEN <<>>
    ELSE IF Head(ids) \in existing THEN FilterNotIn(Tail(ids), existing)
    ELSE <<Head(ids)>> \o FilterNotIn(Tail(ids), existing)

\* the update path that forgets to filter: every discovered CVE is fetched
NewCveIds_NoFilter(ids, update_only, existing) == ids

\* cve_ids = list(cve_mapping.keys()), filtered when update_only
NewCveIds(ids, update_only, existing) ==
    IF update_only THEN FilterNotIn(ids, existing) ELSE ids

\* the record build_vendor_data makes of a details record
BuildRecord(cve_id, vendor_id, data) ==
    [cve_id |-> cve_id, vendor_id |-> vendor_id,
     published_date |-> data.published_date,
     last_modified_date |-> data.last_modified,
     description_en |-> data.description,
     source_flags |-> <<"cvedetails">>,
     cvss_v31_base_score |-> data.cvss_v31_base_score,
     cvss_v31_severity |-> data.cvss_v31_severity,
     cvss_v31_vector |-> data.cvss_vector,
     cvss_v4_base_score |-> NoneNum, cvss_v4_severity |-> None,
     cvss_v4_vector |-> None,
     cwe_ids |-> data.cwe_id,
     reference_urls |-> Join(Take(data.references, 5), ","),
     products |-> <<>>]

\* the loop over cve_mapping[cve_id] left after its first product
AddMappings_First(t, cve_id, prods, vendor_name) ==
    IF prods = {} THEN t
    ELSE AddMapping(t, cve_id, CHOOSE x \in prods : TRUE, vendor_name)

\* for prod in cve_mapping[cve_id]: storage.add_product_mapping(cve_id, prod, vendor_name)
RECURSIVE AddMappings(_, _, _, _)
AddMappings(t, cve_id, prods, vendor_name) ==
    IF prods = {} THEN t
    ELSE LET prod == CHOOSE x \in prods : TRUE
         IN  AddMappings(AddMapping(t, cve_id, prod, vendor_name), cve_id,
                         prods \ {prod}, vendor_name)

\* len(set(p for prods in cve_mapping.values() for p in prods))
ProductCount(d) == Cardinality(UNION {d.prods[c] : c \in MappingKeys(d)})

BuildLast == [op |-> "build_vendor_data", cve_id |-> None, replaced |-> FALSE,
              record |-> None]

\* build_vendor_data up to the end of fetch_cve_details: read the stored ids,
\* discover, filter, and fetch the details of what is left
BuildStart(vendor_id, update_only, d, ok) ==
    /\ pc = "idle"
    /\ LET existing_cves == IF update_only
                            THEN get_existing_cve_ids(cves, vendor_id) ELSE {}
           cve_ids == NewCveIds(d.order, update_only, existing_cves)
           details_ == [i \in DOMAIN cve_ids |->
                           [cve_id |-> cve_ids[i],
                            data |-> FetchResult(cve_ids[i], cve_ids[i] \in ok)]]
       IN  /\ ok \subseteq Range(cve_ids)
           /\ run' = [vendor_id |-> vendor_id, vendor_name |-> VendorName(vendor_id),
                      update_only |-> update_only, existing_cves |-> existing_cves,
                      cve_mapping |-> d, cve_ids |-> cve_ids,
                      details |-> IF d.order = <<>> THEN <<>> ELSE details_,
                      i |-> 1]
           /\ pc' = IF d.order = <<>> THEN "no_cves"
                    ELSE IF update_only /\ cve_ids = <<>> THEN "up_to_date"
                    ELSE "saving"
    /\ last' = BuildLast
    /\ UNCHANGED <<storeVars, is_kev, kev_result, normVars, extractVars, envVars>>

\* st.error("No CVEs found."); return  /  st.success("Up to date!"); return
BuildReturn ==
    /\ pc \in {"no_cves", "up_to_date"}
    /\ pc' = "idle"
    /\ run' = NoRun
    /\ UNCHANGED <<storeVars, is_kev, kev_result, last, normVars, extractVars, envVars>>

\* one iteration of for cve_id, data in details.items()
BuildSaveNext ==
    /\ pc = "saving"
    /\ run.i <= Len(run.details)
    /\ LET cve_id == run.details[run.i].cve_id
           data == run.details[run.i].data
           r == BuildRecord(cve_id, run.vendor_id, data)
       IN  IF "error" \in DOMAIN data
           THEN UNCHANGED storeVars
           ELSE /\ cves' = UpsertCve(cves, r, run.vendor_id)
                /\ weaknesses' = UpdateWeaknesses(weaknesses, r)
                /\ cve_references' = UpdateReferences(cve_references, r)
                /\ products' =
                     IF cve_id \in MappingKeys(run.cve_mapping)
                     THEN AddMappings(UpdateProducts(products, r), cve_id,
                                      run.cve_mapping.prods[cve_id], run.vendor_name)
                     ELSE UpdateProducts(products, r)
                /\ UNCHANGED vendor_metadata
    /\ run' = [run EXCEPT !.i = run.i + 1]
    /\ UNCHANGED <<pc, last, is_kev, kev_result, normVars, extractVars, envVars>>

\* after the loop: count the vendor's stored CVEs and write vendor_metadata
BuildFinish ==
    /\ pc = "saving"
    /\ run.i > Len(run.details)
    /\ vendor_metadata' =
         InsertOrReplaceVendor(vendor_metadata,
             VendorRow(run.vendor_id, run.vendor_name,
                       Cardinality(get_existing_cve_ids(cves, run.vendor_id)),
                       ProductCount(run.cve_mapping)))
    /\ pc' = "idle"
    /\ run' = NoRun
    /\ UNCHANGED <<cves, weaknesses, cve_references, products>>
    /\ UNCHANGED <<last, is_kev, kev_result, normVars, extractVars, envVars>>

NextBuild ==
    \/ \E v \in VendorIds, u \in BOOLEAN, d \in Discoveries, ok \in SUBSET CveIds :
          BuildStart(v, u, d, ok)
    \/ BuildReturn
    \/ BuildSaveNext
    \/ BuildFinish

SpecBuild == InitStore /\ [][NextBuild]_vars

-----------------------------------------------------------------------------
(* Claims about build_vendor_data, checked under SpecBuild *)

\* the cve_ids stored for a vendor, read off the cves table
StoredFor(vendor_id) ==
    {row.cve_id : row \in {x \in DOMAIN cves : x.vendor_id = vendor_id}}

\* the CVE ids whose details the run asked fetch_cve_details for
Fetched(r) == {r.details[i].cve_id : i \in DOMAIN r.details}

\* the stored record of a CVE: its cves row and its child rows
StoredRecord(c) ==
    <<RowsOf(cves, c), RowsOf(weaknesses, c), RowsOf(cve_references, c),
      RowsOf(products, c)>>

\* C4: an update-only run for a vendor whose stored ids are S and whose
\* discovered ids are D fetches details exactly for D \ S, and no step of the
\* run changes the stored record of any CVE of S.
C4_UpdateOnlyFetchesNewKeepsStored ==
    [][/\ (pc = "idle" /\ pc' # "idle" /\ run'.update_only) =>
            /\ run'.existing_cves = StoredFor(run'.vendor_id)
            /\ Fetched(run') =
                 MappingKeys(run'.cve_mapping) \ StoredFor(run'.vendor_id)
       /\ (pc # "idle" /\ run.update_only) =>
            \A c \in run.existing_cves : StoredRecord(c)' = StoredRecord(c)
    ]_vars

\* C4 witness: an update-only run that found one CVE already stored for the
\* vendor and one new CVE has fetched and saved the new one.
C4_Witness ==
    /\ pc = "saving"
    /\ run.update_only
    /\ run.i > Len(run.details)
    /\ \E c \in run.existing_cves : c \in MappingKeys(run.cve_mapping)
    /\ \E c \in Fetched(run) :
         /\ c \notin run.existing_cves
         /\ c \in StoredFor(run.vendor_id)

-----------------------------------------------------------------------------
(* CVEDetailsFetcher._extract_details: the CVSS score badges *)

\* div.cvssbox elements read from one page
MaxBadges == 2

Digits == <<"0", "1", "2", "3", "4", "5", "6", "7", "8", "9">>

IsDigit(ch) == \E i \in DOMAIN Digits : Digits[i] = ch

DigitVal(ch) == (CHOOSE i \in DOMAIN Digits : Digits[i] = ch) - 1

\* the number written by a sequence of digits
RECURSIVE DigitsVal(_)
DigitsVal(ds) ==
    IF ds = <<>> THEN 0
    ELSE 10 * DigitsVal(SubSeq(ds, 1, Len(ds) - 1)) + DigitVal(ds[Len(ds)])

AllDigits(ds) == \A i \in DOMAIN ds : IsDigit(ds[i])

\* float(text) of an unsigned decimal with at most two fractional digits, in
\* hundredths; NoneNum where float raises ValueError
ParseFloat(text) ==
    LET parts == Split(text, ".")
        whole == parts[1]
        frac == IF Len(parts) = 2 THEN parts[2] ELSE <<>>
    IN  IF /\ Len(parts) <= 2
           /\ AllDigits(whole) /\ AllDigits(frac)
           /\ Len(whole) + Len(frac) > 0
           /\ Len(frac) <= 2
        THEN <<100 * DigitsVal(whole)
               + (IF Len(frac) = 1 THEN 10 ELSE 1) * DigitsVal(frac)>>
        ELSE NoneNum

\* the severity ladder with its first rung exclusive: 9.0 falls to HIGH
ScoreSeverity_Exclusive(score) ==
    IF score > 900 THEN "CRITICAL"
    ELSE IF score >= 700 THEN "HIGH"
    ELSE IF score >= 400 THEN "MEDIUM"
    ELSE IF score > 0 THEN "LOW"
    ELSE "NONE"

\* Determine severity (score in hundredths)
ScoreSeverity(score) ==
    IF score >= 900 THEN "CRITICAL"
    ELSE IF score >= 700 THEN "HIGH"
    ELSE IF score >= 400 THEN "MEDIUM"
    ELSE IF score > 0 THEN "LOW"
    ELSE "NONE"

\* the details dict before extraction, as far as the score is concerned
NoScoreDetails == [cvss_v31_base_score |-> NoneNum, cvss_v31_severity |-> None]

\* for score_elem in score_elems: ...
RECURSIVE ExtractScore(_, _)
ExtractScore(elems, d) ==
    IF elems = <<>> THEN d
    ELSE LET text == Strip(Head(elems))
             score == ParseFloat(text)
             d1 == IF score # NoneNum /\ d.cvss_v31_base_score = NoneNum
                   THEN [cvss_v31_base_score |-> score,
                         cvss_v31_severity |-> ScoreSeverity(score[1])]
                   ELSE d
         IN  ExtractScore(Tail(elems), d1)

\* texts of score badges: the boundary scores and their neighbours, a padded
\* score, and texts that are no number
BadgeTexts ==
    {<<"9", ".", "0">>, <<"8", ".", "9", "9">>, <<"7", ".", "0">>,
     <<"6", ".", "9", "9">>, <<"4", ".", "0">>, <<"3", ".", "9", "9">>,
     <<"0", ".", "0", "1">>, <<"0">>, <<"0", ".", "0">>, <<"1", "0", ".", "0">>,
     <<" ", "9", ".", "8", " ">>, <<"N/A">>, <<>>, <<".">>}

InitExtract ==
    /\ cves = EmptyBag
    /\ weaknesses = EmptyBag
    /\ cve_references = EmptyBag
    /\ products = EmptyBag
    /\ vendor_metadata = EmptyBag
    /\ is_kev = {}
    /\ kev_result = NoKev
    /\ last = [op |-> "init", cve_id |-> None, replaced |-> FALSE, record |-> None]
    /\ pc = "page"
    /\ run = NoRun
    /\ nvd_data = NoPayload
    /\ v5_data = NoPayload
    /\ record = None
    /\ score_elems \in SeqsUpTo(BadgeTexts, MaxBadges)
    /\ details = NoScoreDetails
    /\ InitEnv

\* _extract_details on the loaded page
ExtractDetails ==
    /\ pc = "page"
    /\ details' = ExtractScore(score_elems, details)
    /\ pc' = "extracted"
    /\ UNCHANGED <<storeVars, is_kev, kev_result, last, run, normVars, score_elems, envVars>>

NextExtract == ExtractDetails

SpecExtract == InitExtract /\ [][NextExtract]_vars

\* the badges that float() accepts, in page order
NumericBadges == {i \in DOMAIN score_elems : ParseFloat(Strip(score_elems[i])) # NoneNum}

\* the threshold table of CVSS v3.1, on hundredths
TableSeverity(s) ==
    CASE s >= 900 -> "CRITICAL"
      [] s >= 700 /\ s < 900 -> "HIGH"
      [] s >= 400 /\ s < 700 -> "MEDIUM"
      [] s > 0 /\ s < 400 -> "LOW"
      [] s = 0 -> "NONE"

\* the severity extracted from a page whose only badge reads text
SeverityOfText(text) == ExtractScore(<<text>>, NoScoreDetails).cvss_v31_severity

\* C6: the severity extracted is the threshold-table value of the first badge
\* that parses as a number (none: no score, no severity), later badges change
\* nothing, and the boundaries fall as the table says: 9.0 CRITICAL, 8.99 HIGH,
\* 7.0 HIGH, 6.99 MEDIUM, 4.0 MEDIUM, 3.99 LOW, 0.01 LOW, 0 NONE.
C6_SeverityFromFirstScore ==
    /\ pc = "extracted" =>
         IF NumericBadges = {}
         THEN details = NoScoreDetails
         ELSE LET first == CHOOSE i \in NumericBadges : \A j \in NumericBadges : i <= j
                  s == ParseFloat(Strip(score_elems[first]))[1]
              IN  /\ details.cvss_v31_base_score = <<s>>
                  /\ details.cvss_v31_severity = TableSeverity(s)
    /\ SeverityOfText(<<"9", ".", "0">>) = "CRITICAL"
    /\ SeverityOfText(<<"8", ".", "9", "9">>) = "HIGH"
    /\ SeverityOfText(<<"7", ".", "0">>) = "HIGH"
    /\ SeverityOfText(<<"6", ".", "9", "9">>) = "MEDIUM"
    /\ SeverityOfText(<<"4", ".", "0">>) = "MEDIUM"
    /\ SeverityOfText(<<"3", ".", "9", "9">>) = "LOW"
    /\ SeverityOfText(<<"0", ".", "0", "1">>) = "LOW"
    /\ SeverityOfText(<<"0">>) = "NONE"

\* C6 witness: the first badge is no number, the second reads 9.0, so the
\* score is 9.0 and the severity CRITICAL.
C6_Witness ==
    /\ pc = "extracted"
    /\ Len(score_elems) = 2
    /\ score_elems[1] = <<"N/A">>
    /\ score_elems[2] = <<"9", ".", "0">>
    /\ details.cvss_v31_base_score = <<900>>
    /\ details.cvss_v31_severity = "CRITICAL"

\* C6 witness of the other half: two numeric badges, and the first one decides
C6_FirstBadgeWins ==
    /\ pc = "extracted"
    /\ Len(score_elems) = 2
    /\ score_elems[1] = <<"3", ".", "9", "9">>
    /\ score_elems[2] = <<"9", ".", "0">>
    /\ details.cvss_v31_severity = "LOW"

-----------------------------------------------------------------------------
(* Normalizer.normalize *)

\* bool(payload): None and the empty dict are falsy
PayloadTruthy(p) == p # NoPayload /\ DOMAIN p[1] # {}

\* the words of the modelled texts that begin with the letters CWE
CwePrefixed == {"CWE-20", "CWE-79", "CWE-89"}

\* val.startswith("CWE")
StartsWithCWE(val) == val # <<>> /\ Head(val) \in CwePrefixed

\* a or b
Or(a, b) == IF Truthy(a) THEN a ELSE b

\* the append without its membership test: every truthy value is added
AppendNew_NoDedup(list, x) == IF Truthy(x) THEN Append(list, x) ELSE list

\* if x and x not in list: list.append(x)
AppendNew(list, x) ==
    IF Truthy(x) /\ x \notin Range(list) THEN Append(list, x) ELSE list

\* AppendNew for each x of xs in turn
RECURSIVE AppendAllNew(_, _)
AppendAllNew(list, xs) ==
    IF xs = <<>> THEN list
    ELSE AppendAllNew(AppendNew(list, Head(xs)), Tail(xs))

\* for desc in descs: if desc.get("lang") == "en": return desc.get("value");
\* current when the loop ends without a break
RECURSIVE FirstEnValue(_, _)
FirstEnValue(descs, current) ==
    IF descs = <<>> THEN current
    ELSE IF Get(Head(descs), "lang", None) = "en"
    THEN Get(Head(descs), "value", None)
    ELSE FirstEnValue(Tail(descs), current)

\* desc.get("value") of the English entries of one description list
RECURSIVE EnValues(_)
EnValues(descs) ==
    IF descs = <<>> THEN <<>>
    ELSE (IF Get(Head(descs), "lang", None) = "en"
          THEN <<Get(Head(descs), "value", NoneStr)>> ELSE <<>>)
         \o EnValues(Tail(descs))

\* the values met by the loops over weaknesses and their descriptions
RECURSIVE WeaknessValues(_)
WeaknessValues(weaks) ==
    IF weaks = <<>> THEN <<>>
    ELSE EnValues(Get(Head(weaks), "description", <<>>))
         \o WeaknessValues(Tail(weaks))

\* ref.get("url") of each reference
RECURSIVE RefUrls(_)
RefUrls(refs) ==
    IF refs = <<>> THEN <<>>
    ELSE <<Get(Head(refs), "url", NoneStr)>> \o RefUrls(Tail(refs))

\* cpe_match.get("criteria") of each match
RECURSIVE MatchCriteria(_)
MatchCriteria(matches) ==
    IF matches = <<>> THEN <<>>
    ELSE <<Get(Head(matches), "criteria", NoneStr)>> \o MatchCriteria(Tail(matches))

RECURSIVE NodeCriteria(_)
NodeCriteria(nodes) ==
    IF nodes = <<>> THEN <<>>
    ELSE MatchCriteria(Get(Head(nodes), "cpeMatch", <<>>))
         \o NodeCriteria(Tail(nodes))

\* the criteria met by the loops over configurations, nodes and cpeMatch
RECURSIVE ConfigCriteria(_)
ConfigCriteria(configs) ==
    IF configs = <<>> THEN <<>>
    ELSE NodeCriteria(Get(Head(configs), "nodes", <<>>))
         \o ConfigCriteria(Tail(configs))

\* desc.get("cweId") or desc.get("description") of the English entries of one
\* problem type, kept when it starts with CWE
RECURSIVE ProblemValues(_)
ProblemValues(descs) ==
    IF descs = <<>> THEN <<>>
    ELSE LET desc == Head(descs)
             val == Or(Get(desc, "cweId", NoneStr), Get(desc, "description", NoneStr))
         IN  (IF Get(desc, "lang", None) = "en" /\ Truthy(val) /\ StartsWithCWE(val)
              THEN <<val>> ELSE <<>>)
             \o ProblemValues(Tail(descs))

RECURSIVE ProblemTypeValues(_)
ProblemTypeValues(probs) ==
    IF probs = <<>> THEN <<>>
    ELSE ProblemValues(Get(Head(probs), "descriptions", <<>>))
         \o ProblemTypeValues(Tail(probs))

\* the record normalize starts from, its lists still lists
NewRecord(cve_id) ==
    [cve_id |-> cve_id,
     published_date |-> None, last_modified_date |-> None,
     description_en |-> "",
     source_flags |-> <<>>,
     cvss_v31_base_score |-> NoneNum, cvss_v31_severity |-> None,
     cvss_v31_vector |-> None,
     cvss_v4_base_score |-> NoneNum, cvss_v4_severity |-> None,
     cvss_v4_vector |-> None,
     cwe_ids |-> <<>>, reference_urls |-> <<>>, products |-> <<>>]

\* whether the NVD block runs
NvdProcessed(nvd) == PayloadTruthy(nvd) /\ "vulnerabilities" \in DOMAIN nvd[1]

\* the v5 block never running
V5Processed_Never(v5) == FALSE

\* whether the v5 block runs
V5Processed(v5) == PayloadTruthy(v5)

\* --- Process NVD Data ---
ProcessNvd(rec, nvd) ==
    LET vuln_item == Get(nvd.vulnerabilities[1], "cve", EmptyDict)
        metrics == Get(vuln_item, "metrics", EmptyDict)
        hasV31 == "cvssMetricV31" \in DOMAIN metrics
        v31 == IF hasV31 THEN Get(metrics.cvssMetricV31[1], "cvssData", EmptyDict)
               ELSE EmptyDict
        hasV4 == "cvssMetricV40" \in DOMAIN metrics
        v4 == IF hasV4 THEN Get(metrics.cvssMetricV40[1], "cvssData", EmptyDict)
              ELSE EmptyDict
    IN  [rec EXCEPT
           !.source_flags = Append(@, <<"nvd">>),
           !.published_date = Get(vuln_item, "published", None),
           !.last_modified_date = Get(vuln_item, "lastModified", None),
           !.description_en = FirstEnValue(Get(vuln_item, "descriptions", <<>>), @),
           !.cvss_v31_base_score = IF hasV31 THEN Get(v31, "baseScore", NoneNum) ELSE @,
           !.cvss_v31_severity = IF hasV31 THEN Get(v31, "baseSeverity", None) ELSE @,
           !.cvss_v31_vector = IF hasV31 THEN Get(v31, "vectorString", None) ELSE @,
           !.cvss_v4_base_score = IF hasV4 THEN Get(v4, "baseScore", NoneNum) ELSE @,
           !.cvss_v4_severity = IF hasV4 THEN Get(v4, "baseSeverity", None) ELSE @,
           !.cvss_v4_vector = IF hasV4 THEN Get(v4, "vectorString", None) ELSE @,
           !.cwe_ids = AppendAllNew(@, WeaknessValues(Get(vuln_item, "weaknesses", <<>>))),
           !.reference_urls = AppendAllNew(@, RefUrls(Get(vuln_item, "references", <<>>))),
           !.products = AppendAllNew(@, ConfigCriteria(Get(vuln_item, "configurations", <<>>)))]

\* the description block of the v5 pass replacing what NVD gave
V5Description_Override(current, containers) ==
    FirstEnValue(Get(containers, "descriptions", <<>>), current)

\* Fallback for Description
V5Description(current, containers) ==
    IF ~TruthyText(current)
    THEN FirstEnValue(Get(containers, "descriptions", <<>>), current)
    ELSE current

\* --- Process V5 Data (Fallback/Enrichment) ---
ProcessV5(rec, v5) ==
    LET cve_meta == Get(v5, "cveMetadata", EmptyDict)
        containers == Get(Get(v5, "containers", EmptyDict), "cna", EmptyDict)
    IN  [rec EXCEPT
           !.source_flags = Append(@, <<"v5">>),
           !.published_date =
               IF ~TruthyText(@) THEN Get(cve_meta, "datePublished", None) ELSE @,
           !.last_modified_date =
               IF ~TruthyText(@) THEN Get(cve_meta, "dateUpdated", None) ELSE @,
           !.description_en = V5Description(@, containers),
           !.reference_urls = AppendAllNew(@, RefUrls(Get(containers, "references", <<>>))),
           !.cwe_ids =
               AppendAllNew(@, ProblemTypeValues(Get(containers, "problemTypes", <<>>)))]

\* Final cleanup: the lists joined into strings
FinalCleanup(rec) ==
    [rec EXCEPT
       !.source_flags = Join(@, ","),
       !.cwe_ids = Join(@, ","),
       !.reference_urls = Join(@, ","),
       !.products = Join(@, ";")]

\* Normalizer.normalize(cve_id, nvd_data, v5_data)
normalize(cve_id, nvd, v5) ==
    LET r0 == NewRecord(cve_id)
        r1 == IF NvdProcessed(nvd) THEN ProcessNvd(r0, nvd[1]) ELSE r0
        r2 == IF V5Processed(v5) THEN ProcessV5(r1, v5[1]) ELSE r1
    IN  FinalCleanup(r2)

-----------------------------------------------------------------------------
(* Payloads handed to normalize *)

\* a dict with the key k when opt holds a value, without it when opt is <<>>
Key(k, opt) == IF opt = <<>> THEN EmptyDict ELSE [x \in {k} |-> opt[1]]

En(value) == [lang |-> "en", value |-> value]

Es(value) == [lang |-> "es", value |-> value]

CpeWidgetFull ==
    CpeWidget \o <<":", "*", ":", "*", ":", "*", ":", "*", ":", "*", ":", "*", ":", "*">>

\* the same product in another version
CpeWidgetTwo ==
    <<"cpe", ":", "2.3", ":", "a", ":", "acme", ":", "widget", ":", "2.0",
      ":", "*", ":", "*", ":", "*", ":", "*", ":", "*", ":", "*", ":", "*">>

\* descriptions of an NVD item: none, English, English after Spanish, an
\* empty English text, Spanish only
NvdDescriptionOpts ==
    {<<>>,
     <<<<En("nvd description")>>>>,
     <<<<Es("descripcion"), En("nvd description"), En("second")>>>>,
     <<<<En("")>>>>,
     <<<<Es("descripcion")>>>>}

\* metrics of an NVD item: none, a v3.1 score alone, a v3.1 score with its
\* severity and vector, v3.1 and v4.0 together
NvdMetricsOpts ==
    {<<>>,
     <<[cvssMetricV31 |-> <<[cvssData |-> [baseScore |-> <<980>>]]>>]>>,
     <<[cvssMetricV31 |-> <<[cvssData |-> [baseScore |-> <<750>>,
                                           baseSeverity |-> "HIGH",
                                           vectorString |-> "CVSS:3.1/AV:N"]]>>]>>,
     <<[cvssMetricV31 |-> <<[cvssData |-> [baseScore |-> <<400>>]]>>,
        cvssMetricV40 |-> <<[cvssData |-> [baseScore |-> <<690>>,
                                           baseSeverity |-> "MEDIUM",
                                           vectorString |-> "CVSS:4.0/AV:N"]]>>]>>}

Weakness(descs) == [description |-> descs]

\* weaknesses of an NVD item: none, one, several with a repetition and a
\* non-English entry
NvdWeaknessOpts ==
    {<<>>,
     <<<<Weakness(<<En(<<"CWE-89">>)>>)>>>>,
     <<<<Weakness(<<En(<<"CWE-79">>), Es(<<"CWE-20">>)>>),
         Weakness(<<En(<<"CWE-89">>), En(<<"CWE-79">>)>>)>>>>}

Config(criteria) ==
    [nodes |-> <<[cpeMatch |-> <<[criteria |-> criteria]>>]>>]

\* the remaining keys of an NVD item: none, a configuration alone, dates,
\* references and configurations, one product in two versions
NvdRestOpts ==
    {EmptyDict,
     [configurations |-> <<Config(CpeWidgetFull)>>],
     [published |-> "2024-01-01", lastModified |-> "2024-02-02",
      references |-> <<[url |-> <<"https://a">>], [url |-> <<"https://a">>]>>,
      configurations |-> <<Config(CpeWidgetFull), Config(CpeWidgetFull)>>],
     [configurations |-> <<Config(CpeWidgetFull), Config(CpeWidgetTwo)>>]}

NvdItems ==
    {Key("descriptions", d) @@ Key("metrics", m) @@ Key("weaknesses", w) @@ rest :
        d \in NvdDescriptionOpts, m \in NvdMetricsOpts,
        w \in NvdWeaknessOpts, rest \in NvdRestOpts}

\* an NVD response carrying one record
NvdResponse(item) == [vulnerabilities |-> <<[cve |-> item]>>]

\* what normalize can be handed as nvd_data: None, dicts that carry no
\* record, a record without content, and records
NvdPayloads ==
    {NoPayload, <<EmptyDict>>, <<[message |-> "Invalid cveId"]>>,
     <<[vulnerabilities |-> <<EmptyDict>>]>>}
    \cup {<<NvdResponse(item)>> : item \in NvdItems}

V5DescriptionOpts ==
    {<<>>, <<<<Es("descripcion v5"), En("v5 description")>>>>, <<<<En("")>>>>}

Problem(descs) == [descriptions |-> descs]

\* problemTypes of a v5 record: none; an identifier with its text; free text
\* that starts with an identifier, an identifier given twice and text that
\* names none; a non-English entry with an identifier
V5ProblemOpts ==
    {<<>>,
     <<<<Problem(<<[lang |-> "en", cweId |-> <<"CWE-89">>,
                    description |-> <<"CWE-89", " ", "SQL", " ", "Injection">>]>>)>>>>,
     <<<<Problem(<<[lang |-> "en", description |-> <<"CWE-79", " ", "XSS">>],
                   [lang |-> "en", cweId |-> <<"CWE-20">>]>>),
         Problem(<<[lang |-> "en", cweId |-> <<"CWE-20">>],
                   [lang |-> "en", description |-> <<"Improper", " ", "input">>]>>)>>>>,
     <<<<Problem(<<[lang |-> "es", cweId |-> <<"CWE-79">>]>>)>>>>}

\* references of a v5 record: none, the one NVD has, that one and another
V5ReferenceOpts ==
    {<<>>,
     <<<<[url |-> <<"https://a">>]>>>>,
     <<<<[url |-> <<"https://a">>], [url |-> <<"https://b">>]>>>>}

V5MetadataOpts ==
    {<<>>, <<[datePublished |-> "2023-12-31", dateUpdated |-> "2024-03-03"]>>}

V5Records ==
    {Key("cveMetadata", m)
       @@ [containers |->
             [cna |-> Key("descriptions", d) @@ Key("problemTypes", p)
                      @@ Key("references", refs)]] :
        m \in V5MetadataOpts, d \in V5DescriptionOpts,
        p \in V5ProblemOpts, refs \in V5ReferenceOpts}

\* what normalize can be handed as v5_data: None, dicts that carry no
\* record, and records
V5Payloads ==
    {NoPayload, <<EmptyDict>>, <<[dataType |-> "CVE_RECORD"]>>}
    \cup {<<v5>> : v5 \in V5Records}

InitNormalize ==
    /\ cves = EmptyBag
    /\ weaknesses = EmptyBag
    /\ cve_references = EmptyBag
    /\ products = EmptyBag
    /\ vendor_metadata = EmptyBag
    /\ is_kev = {}
    /\ kev_result = NoKev
    /\ last = [op |-> "init", cve_id |-> None, replaced |-> FALSE, record |-> None]
    /\ pc = "call"
    /\ run = NoRun
    /\ nvd_data \in NvdPayloads
    /\ v5_data \in V5Payloads
    /\ record = None
    /\ score_elems = <<>>
    /\ details = None
    /\ InitEnv

\* record = normalizer.normalize(cve_id, nvd, v5)
Normalize(cve_id) ==
    /\ pc = "call"
    /\ record' = normalize(cve_id, nvd_data, v5_data)
    /\ pc' = "normalized"
    /\ UNCHANGED <<storeVars, is_kev, kev_result, last, run, nvd_data, v5_data,
                   extractVars, envVars>>

NextNormalize == Normalize("CVE-2024-0001")

SpecNormalize == InitNormalize /\ [][NextNormalize]_vars

-----------------------------------------------------------------------------
(* Claims about normalize, checked under SpecNormalize *)

\* the English description a list of descriptions supplies: the value of its
\* first English entry, "" when it has none
SuppliedDescription(descs) ==
    LET en == {i \in DOMAIN descs : descs[i].lang = "en"}
    IN  IF en = {} THEN ""
        ELSE descs[CHOOSE i \in en : \A j \in en : i <= j].value

\* whether the NVD payload carries a record
CarriesRecord(nvd) ==
    /\ nvd # NoPayload
    /\ "vulnerabilities" \in DOMAIN nvd[1]

\* the CVE item of an NVD payload that carries a record
ItemOf(nvd) == Get(nvd[1].vulnerabilities[1], "cve", EmptyDict)

\* the cna container of a v5 payload
CnaOf(v5) ==
    IF v5 = NoPayload THEN EmptyDict
    ELSE Get(Get(v5[1], "containers", EmptyDict), "cna", EmptyDict)

NvdEnglish(nvd) ==
    IF CarriesRecord(nvd)
    THEN SuppliedDescription(Get(ItemOf(nvd), "descriptions", <<>>))
    ELSE ""

V5English(v5) == SuppliedDescription(Get(CnaOf(v5), "descriptions", <<>>))

\* C8: normalize returns NVD's English description when NVD supplies one,
\* whether or not v5 does; v5's English description when only v5 supplies
\* one; and the empty string when neither supplies one.
C8_DescriptionPrecedence ==
    pc = "normalized" =>
        record.description_en =
            IF NvdEnglish(nvd_data) # "" THEN NvdEnglish(nvd_data)
            ELSE IF V5English(v5_data) # "" THEN V5English(v5_data)
            ELSE ""

\* C8 witness: both payloads supply an English description and the record
\* carries NVD's.
C8_Witness ==
    /\ pc = "normalized"
    /\ NvdEnglish(nvd_data) = "nvd description"
    /\ V5English(v5_data) = "v5 description"
    /\ record.description_en = "nvd description"

\* the concatenation of a list of lists
RECURSIVE Flatten(_)
Flatten(lists) ==
    IF lists = <<>> THEN <<>> ELSE Head(lists) \o Flatten(Tail(lists))

\* the English entries of the description lists found under key in a list of
\* blocks, in order
EnglishEntries(blocks, key) ==
    SelectSeq(Flatten([i \in DOMAIN blocks |-> Get(blocks[i], key, <<>>)]),
              LAMBDA entry : Get(entry, "lang", None) = "en")

\* the identifiers of NVD's weaknesses block: the non-empty values of its
\* English entries, in order
NvdCweIds(nvd) ==
    IF CarriesRecord(nvd)
    THEN LET entries == EnglishEntries(Get(ItemOf(nvd), "weaknesses", <<>>),
                                       "description")
         IN  SelectSeq([i \in DOMAIN entries |-> entries[i].value],
                       LAMBDA v : v # <<>>)
    ELSE <<>>

\* what a v5 problem-type entry names: its cweId, or else its description
NamedBy(entry) ==
    IF "cweId" \in DOMAIN entry /\ entry.cweId # <<>> THEN entry.cweId
    ELSE IF "description" \in DOMAIN entry THEN entry.description
    ELSE <<>>

\* the identifiers of v5's problem-type descriptions: what each English entry
\* names, when that begins with CWE, in order
V5CweIds(v5) ==
    LET entries == EnglishEntries(Get(CnaOf(v5), "problemTypes", <<>>),
                                  "descriptions")
    IN  SelectSeq([i \in DOMAIN entries |-> NamedBy(entries[i])],
                  LAMBDA v : v # <<>> /\ Head(v) \in CwePrefixed)

\* the list a comma-joined field of the record stands for
Listed(field) == IF field = <<>> THEN <<>> ELSE Split(field, ",")

\* the first position of x in a sequence
FirstIndex(xs, x) == CHOOSE i \in DOMAIN xs : xs[i] = x /\ \A j \in 1..(i - 1) : xs[j] # x

DataFields(r) == [r EXCEPT !.source_flags = <<>>]

\* some field of the record was taken from the NVD payload: NVD is read
\* first, so what it gives is what normalize returns for it alone
NvdContributed ==
    DataFields(normalize(record.cve_id, nvd_data, NoPayload))
        # DataFields(normalize(record.cve_id, NoPayload, NoPayload))

\* some field of the record was taken from the v5 payload: the record differs
\* from the one NVD alone gives
V5Contributed ==
    DataFields(record) # DataFields(normalize(record.cve_id, nvd_data, NoPayload))

\* the sources named by source_flags
Flags == Range(Listed(record.source_flags))

\* C10 (as claimed): 'nvd' is in source_flags if and only if some field of
\* the record was taken from the NVD payload, and 'v5' if and only if some
\* field was taken from the v5 payload.
C10_FlagsNameContributors ==
    pc = "normalized" =>
        /\ <<"nvd">> \in Flags <=> NvdContributed
        /\ <<"v5">> \in Flags <=> V5Contributed

\* C10 (amended): 'nvd' is in source_flags if and only if the NVD payload is
\* a non-empty object with a vulnerabilities key, and 'v5' if and only if the
\* v5 payload is a non-empty object; a source that contributed a field is
\* always named, but a named source need not have contributed any.
C10_FlagsNamePayloads ==
    pc = "normalized" =>
        /\ <<"nvd">> \in Flags <=>
             (nvd_data # NoPayload /\ "vulnerabilities" \in DOMAIN nvd_data[1])
        /\ <<"v5">> \in Flags <=> (v5_data # NoPayload /\ DOMAIN v5_data[1] # {})
        /\ NvdContributed => <<"nvd">> \in Flags
        /\ V5Contributed => <<"v5">> \in Flags
        /\ Flags \subseteq {<<"nvd">>, <<"v5">>}

\* C10 witness: both sources are named, NVD contributed, and the v5 record
\* (whose references NVD already has) contributed nothing.
C10_Witness ==
    /\ pc = "normalized"
    /\ Listed(record.source_flags) = <<<<"nvd">>, <<"v5">>>>
    /\ NvdContributed
    /\ ~V5Contributed
    /\ "references" \in DOMAIN CnaOf(v5_data)

-----------------------------------------------------------------------------
(* pipeline.py main: the file-based pipeline *)

\* CVE ids read from the input file
MaxInput == 2

\* the ids in sorted order
CveOrder == <<"CVE-2024-0001", "CVE-2024-0002">>

\* list(set(ids)) without the sort: the reverse of the sorted order is one
\* of the orders a set can be listed in
SortedIds_Unsorted(ids) ==
    LET n == Len(CveOrder)
    IN  SelectSeq([i \in 1..n |-> CveOrder[n + 1 - i]], LAMBDA c : c \in ids)

\* sorted(list(set(ids)))
SortedIds(ids) == SelectSeq(CveOrder, LAMBDA c : c \in ids)

\* str.lower() of the words of product names
LowerWord(w) ==
    CASE w = "Orion" -> "orion"
      [] w = "Platform" -> "platform"
      [] OTHER -> w

\* prod.replace(" ", "_").lower()
CleanProd(prod) ==
    [i \in DOMAIN prod |-> IF prod[i] = " " THEN "_" ELSE LowerWord(prod[i])]

\* f"cpe:2.3:a:solarwinds:{clean_prod}:*:*:*:*:*:*:*"
FakeCpe(prod) ==
    <<"cpe", ":", "2.3", ":", "a", ":", "solarwinds", ":">> \o CleanProd(prod)
    \o <<":", "*", ":", "*", ":", "*", ":", "*", ":", "*", ":", "*", ":", "*">>

\* the orders in which a set can be iterated
Orderings(S) == {order \in [1..Cardinality(S) -> S] : Range(order) = S}

\* Enrich with Scraped Data
Enrich(rec, extra_products) ==
    LET new_prods == [i \in DOMAIN extra_products |-> FakeCpe(extra_products[i])]
        current_prods == rec.products
    IN  [rec EXCEPT !.products =
            IF current_prods # <<>>
            THEN current_prods \o <<";">> \o Join(new_prods, ";")
            ELSE Join(new_prods, ";")]

\* the NVD record of the end-to-end scenario: a v3.1 score of 9.8 without a
\* severity, the weakness CWE-89 and one CPE
ScenarioItem ==
    [metrics |-> [cvssMetricV31 |-> <<[cvssData |-> [baseScore |-> <<980>>]]>>],
     weaknesses |-> <<Weakness(<<En(<<"CWE-89">>)>>)>>,
     configurations |-> <<Config(CpeWidgetFull)>>]

\* an NVD record that states its severity
RatedItem ==
    [published |-> "2024-01-01", lastModified |-> "2024-02-02",
     descriptions |-> <<En("nvd description")>>,
     metrics |-> [cvssMetricV31 |-> <<[cvssData |-> [baseScore |-> <<750>>,
                                                     baseSeverity |-> "HIGH",
                                                     vectorString |-> "CVSS:3.1/AV:N"]]>>],
     references |-> <<[url |-> <<"https://a">>]>>]

\* a v5 record
V5Record ==
    [cveMetadata |-> [datePublished |-> "2023-12-31", dateUpdated |-> "2024-03-03"],
     containers |-> [cna |->
        [descriptions |-> <<En("v5 description")>>,
         problemTypes |-> <<Problem(<<[lang |-> "en", cweId |-> <<"CWE-79">>]>>)>>,
         references |-> <<[url |-> <<"https://b">>]>>]]]

\* what fetch_nvd_cve and fetch_v5_cve return in the pipeline
FetchedNvd == {NoPayload, <<NvdResponse(ScenarioItem)>>, <<NvdResponse(RatedItem)>>}

FetchedV5 == {NoPayload, <<V5Record>>}

\* scraper.scrape_product_map(): nothing without --scrape, else products per CVE
ScrapedMaps == {EmptyDict, [c \in {"CVE-2024-0001"} |-> ProductNames]}

\* load_cve_ids(args.input)
InputLists == SeqsUpTo(CveIds, MaxInput)

\* main up to the process loop: load the ids, scrape, merge the scraped ids
PipelineStart(input_ids, scraped_data) ==
    /\ pc = "idle"
    /\ run' = [cve_ids |-> IF DOMAIN scraped_data # {}
                           THEN SortedIds(Range(input_ids) \cup DOMAIN scraped_data)
                           ELSE input_ids,
               scraped_data |-> scraped_data,
               input_ids |-> input_ids,
               idx |-> 1]
    /\ pc' = "pipeline"
    /\ last' = [op |-> "pipeline", cve_id |-> None, replaced |-> FALSE, record |-> None]
    /\ UNCHANGED <<storeVars, is_kev, kev_result, normVars, extractVars, envVars>>

\* one iteration of the process loop: fetch, normalize, enrich, store
PipelineProcess(nvd, v5, extra_products) ==
    /\ pc = "pipeline"
    /\ run.idx <= Len(run.cve_ids)
    /\ LET cve_id == run.cve_ids[run.idx]
           normalized == normalize(cve_id, nvd, v5)
           r == IF cve_id \in DOMAIN run.scraped_data
                THEN Enrich(normalized, extra_products)
                ELSE normalized
       IN  /\ IF cve_id \in DOMAIN run.scraped_data
              THEN extra_products \in Orderings(run.scraped_data[cve_id])
              ELSE extra_products = <<>>
           /\ nvd_data' = nvd
           /\ v5_data' = v5
           /\ IF ~PayloadTruthy(nvd) /\ ~PayloadTruthy(v5)
              THEN /\ last' = [op |-> "skip", cve_id |-> cve_id, replaced |-> FALSE,
                               record |-> None]
                   /\ UNCHANGED <<storeVars, record>>
              ELSE /\ record' = r
                   /\ cves' = UpsertCve(cves, r, None)
                   /\ weaknesses' = UpdateWeaknesses(weaknesses, r)
                   /\ cve_references' = UpdateReferences(cve_references, r)
                   /\ products' = UpdateProducts(products, r)
                   /\ last' = [op |-> "save_cve", cve_id |-> cve_id,
                               replaced |-> HasMapping(products, cve_id), record |-> r]
                   /\ UNCHANGED vendor_metadata
    /\ run' = [run EXCEPT !.idx = run.idx + 1]
    /\ UNCHANGED <<pc, is_kev, kev_result, extractVars, envVars>>

\* after the loop: export and close
PipelineFinish ==
    /\ pc = "pipeline"
    /\ run.idx > Len(run.cve_ids)
    /\ pc' = "idle"
    /\ run' = NoRun
    /\ UNCHANGED <<storeVars, is_kev, kev_result, last, normVars, extractVars, envVars>>

NextPipeline ==
    \/ \E input_ids \in InputLists, scraped_data \in ScrapedMaps :
          PipelineStart(input_ids, scraped_data)
    \/ \E nvd \in FetchedNvd, v5 \in FetchedV5,
          extra_products \in SeqsUpTo(ProductNames, Cardinality(ProductNames)) :
          PipelineProcess(nvd, v5, extra_products)
    \/ PipelineFinish

SpecPipeline == InitStore /\ [][NextPipeline]_vars

-----------------------------------------------------------------------------
(* Claims about the pipeline, checked under SpecPipeline *)

\* the v3.1 data of an NVD payload that carries a record with v3.1 metrics
V31Of(nvd) ==
    LET metrics == Get(ItemOf(nvd), "metrics", EmptyDict)
    IN  IF "cvssMetricV31" \in DOMAIN metrics
        THEN Get(metrics.cvssMetricV31[1], "cvssData", EmptyDict)
        ELSE EmptyDict

\* the source supplies a v3.1 base score but no severity
ScoreWithoutSeverity(nvd) ==
    /\ CarriesRecord(nvd)
    /\ "baseScore" \in DOMAIN V31Of(nvd)
    /\ "baseSeverity" \notin DOMAIN V31Of(nvd)

\* the iteration just made saved a record
JustSaved == pc = "pipeline" /\ last.op = "save_cve"

\* the pipeline has just normalized and saved the scenario payload, with no
\* v5 record and no scraped product
ScenarioSaved ==
    /\ JustSaved
    /\ nvd_data = <<NvdResponse(ScenarioItem)>>
    /\ v5_data = NoPayload
    /\ last.cve_id \notin DOMAIN run.scraped_data

\* the rows of a table for a CVE, as a set, each of them stored once
OneEach(t, cve_id, rows) == RowsOf(t, cve_id) = SetToBag(rows)

\* C7 (as claimed): whenever a source supplies a CVSS v3.1 base score but no
\* severity, the stored severity is the threshold-table value of the score;
\* the scenario payload (9.8 without severity, CWE-89, one CPE of acme widget
\* 1.0), normalized and saved, is stored with severity CRITICAL, exactly one
\* weakness row (cve_id, CWE-89) and exactly one product row acme/widget/1.0.
C7_SeverityDerivedFromScore ==
    /\ (JustSaved /\ ScoreWithoutSeverity(nvd_data)) =>
         \A row \in DOMAIN RowsOf(cves, last.cve_id) :
            row.cvss_v31_severity = TableSeverity(V31Of(nvd_data).baseScore[1])
    /\ ScenarioSaved =>
         /\ \A row \in DOMAIN RowsOf(cves, last.cve_id) :
               row.cvss_v31_severity = "CRITICAL"
         /\ OneEach(weaknesses, last.cve_id,
                    {[cve_id |-> last.cve_id, cwe_id |-> <<"CWE-89">>]})
         /\ \E row \in DOMAIN products :
               /\ OneEach(products, last.cve_id, {row})
               /\ row.vendor = <<"acme">>
               /\ row.product = <<"widget">>
               /\ row.version = <<"1.0">>

\* what does hold of the scenario: the score is stored as given, the
\* severity is stored as None, and the weakness and product rows are as
\* expected
C7_ScenarioAsStored ==
    ScenarioSaved =>
         /\ \A row \in DOMAIN RowsOf(cves, last.cve_id) :
               /\ row.cvss_v31_base_score = <<980>>
               /\ row.cvss_v31_severity = None
         /\ BagCardinality(RowsOf(cves, last.cve_id)) = 1
         /\ OneEach(weaknesses, last.cve_id,
                    {[cve_id |-> last.cve_id, cwe_id |-> <<"CWE-89">>]})
         /\ \E row \in DOMAIN products :
               /\ OneEach(products, last.cve_id, {row})
               /\ row.vendor = <<"acme">>
               /\ row.product = <<"widget">>
               /\ row.version = <<"1.0">>

-----------------------------------------------------------------------------
(* Storage.get_cves_by_vendor and the view flat_cves *)

\* the view listing the raw CPE strings instead of the product names
ProductList_Raw(p, cve_id) == {row.raw_cpe : row \in DOMAIN RowsOf(p, cve_id)}

\* LIST(DISTINCT p.product) of the rows joined to a CVE, as a set
ProductList(p, cve_id) == {row.product : row \in DOMAIN RowsOf(p, cve_id)}

\* LIST(DISTINCT w.cwe_id) of the rows joined to a CVE, as a set
CweList(w, cve_id) == {row.cwe_id : row \in DOMAIN RowsOf(w, cve_id)}

\* CREATE VIEW flat_cves: one row per cves row, with the two lists
flat_cves(c, w, p) ==
    {[cve |-> row,
      cwe_list |-> CweList(w, row.cve_id),
      product_list |-> ProductList(p, row.cve_id)] : row \in DOMAIN c}

\* SELECT * FROM flat_cves WHERE vendor_id = ?
get_cves_by_vendor(c, w, p, vendor_id) ==
    {row \in flat_cves(c, w, p) : row.cve.vendor_id = vendor_id}

\* storage.save_cve(record, vendor_id) of the record normalize returned
SaveNormalized(vendor_id) ==
    /\ pc = "normalized"
    /\ cves' = UpsertCve(cves, record, vendor_id)
    /\ weaknesses' = UpdateWeaknesses(weaknesses, record)
    /\ cve_references' = UpdateReferences(cve_references, record)
    /\ products' = UpdateProducts(products, record)
    /\ last' = [op |-> "save_cve", cve_id |-> record.cve_id,
                replaced |-> HasMapping(products, record.cve_id), record |-> record]
    /\ pc' = "saved"
    /\ run' = [vendor_id |-> vendor_id]
    /\ UNCHANGED <<vendor_metadata, is_kev, kev_result, normVars, extractVars, envVars>>

NextRoundTrip ==
    \/ Normalize("CVE-2024-0001")
    \/ \E v \in VendorIds : SaveNormalized(v)

SpecRoundTrip == InitNormalize /\ [][NextRoundTrip]_vars

-----------------------------------------------------------------------------
(* Claims about the round trip, checked under SpecRoundTrip *)

\* the rows read back for the vendor the record was saved under
ReadBack == get_cves_by_vendor(cves, weaknesses, products, run.vendor_id)

\* the scalar fields of a normalized record
ScalarFields ==
    {"cve_id", "published_date", "last_modified_date", "description_en",
     "source_flags", "cvss_v31_base_score", "cvss_v31_severity", "cvss_v31_vector",
     "cvss_v4_base_score", "cvss_v4_severity", "cvss_v4_vector"}

\* the entries of a joined field of the record, as a set
EntrySet(field, sep) == IF field = <<>> THEN {} ELSE Range(Split(field, sep))

\* the product component of a CPE string
ProductOf(cpe) == Split(cpe, ":")[5]

\* one row is read back, with the scalar fields and the CWE set of the record
ScalarsAndCwesReadBack ==
    /\ Cardinality(ReadBack) = 1
    /\ \A row \in ReadBack :
         /\ \A f \in ScalarFields : row.cve[f] = record[f]
         /\ row.cwe_list = EntrySet(record.cwe_ids, ",")

\* C11 (as claimed): the normalized record, saved under vendor v and read
\* back with get_cves_by_vendor(v), has the same scalar fields, a weakness set
\* equal to the record's de-duplicated CWE set and a product set equal to the
\* record's de-duplicated product set: one product read back for each
\* distinct product entry of the record.
C11_RoundTripSets ==
    pc = "saved" =>
        /\ ScalarsAndCwesReadBack
        /\ \A row \in ReadBack :
             /\ row.product_list = {ProductOf(cpe) : cpe \in EntrySet(record.products, ";")}
             /\ Cardinality(row.product_list)
                  = Cardinality(EntrySet(record.products, ";"))

\* C11 (amended): same scalar fields, same CWE set, and a product list equal
\* to the set of product names (the product component of each CPE) of the
\* record's products; CPEs of one product in several versions read back as
\* one product.
C11_RoundTripProductNames ==
    pc = "saved" =>
        /\ ScalarsAndCwesReadBack
        /\ \A row \in ReadBack :
             row.product_list = {ProductOf(cpe) : cpe \in EntrySet(record.products, ";")}

\* C11 witness: a record with two CWEs and the product widget in versions 1.0
\* and 2.0 has been saved and reads back with both CWEs and the one product.
C11_Witness ==
    /\ pc = "saved"
    /\ Cardinality(EntrySet(record.products, ";")) = 2
    /\ \E row \in ReadBack :
         /\ row.product_list = {<<"widget">>}
         /\ Cardinality(row.cwe_list) >= 2
         /\ row.cve.description_en = "nvd description"

-----------------------------------------------------------------------------
(* DataFetcher: the fetch client and its disk cache (data_fetcher.py) *)

\* the tables, the normalizer and the extraction at rest
InitTables ==
    /\ cves = EmptyBag
    /\ weaknesses = EmptyBag
    /\ cve_references = EmptyBag
    /\ products = EmptyBag
    /\ vendor_metadata = EmptyBag
    /\ is_kev = {}
    /\ kev_result = NoKev
    /\ nvd_data = NoPayload
    /\ v5_data = NoPayload
    /\ record = None
    /\ score_elems = <<>>
    /\ details = None

\* calls of the fetch client in one run
MaxFetches == 3

\* CVE ids as lexeme sequences: the dash is a lexeme, and so is every digit
\* of the suffix.  Suffixes of 3, 4, 5 and 6 digits, an id of two parts and
\* an id of four parts.
Cve(suffix) == <<"CVE", "-", "2021", "-">> \o suffix

FetchIds ==
    {Cve(<<"1", "2", "3">>), Cve(<<"1", "2", "3", "4">>),
     Cve(<<"1", "2", "3", "4", "5">>), Cve(<<"1", "2", "3", "4", "5", "6">>),
     <<"CVE", "-", "2021">>, Cve(<<"1", "2", "3", "4", "-", "5">>)}

\* a response of requests.get: status 0 stands for a raised exception
\* (connection error, timeout, a body that is not JSON)
Response(status, body) == [status |-> status, body |-> body]

NvdFound == <<[vulnerabilities |-> <<[cve |-> [id |-> "found"]]>>]>>

NvdResponses ==
    {Response(0, NoPayload), Response(503, NoPayload), Response(200, NvdFound),
     Response(200, <<[vulnerabilities |-> <<>>]>>),
     Response(200, <<[message |-> "no such CVE"]>>)}

V5Found == <<[cveMetadata |-> [state |-> "PUBLISHED"]]>>

V5Responses ==
    {Response(0, NoPayload), Response(404, NoPayload), Response(500, NoPayload),
     Response(200, V5Found), Response(200, <<EmptyDict>>)}

\* _get_cache_path: cache_dir / f"{cve_id}_{source}.json"
get_cache_path(cve_id, source) == cve_id \o <<"_", source, ".json">>

\* _load_from_cache
load_from_cache(fs, cve_id, source) ==
    IF get_cache_path(cve_id, source) \in DOMAIN fs
    THEN fs[get_cache_path(cve_id, source)]
    ELSE NoPayload

\* open(path, "w") and json.dump: the file is created or rewritten
WriteFile(fs, path, content) ==
    [q \in DOMAIN fs \cup {path} |-> IF q = path THEN content ELSE fs[q]]

\* _save_to_cache
save_to_cache(fs, cve_id, source, data) ==
    WriteFile(fs, get_cache_path(cve_id, source), data)

\* what the client does on the network: time.sleep and requests.get
SleepEvent(tenths) == [op |-> "sleep", tenths |-> tenths, url |-> <<>>]
GetEvent(url) == [op |-> "get", tenths |-> 0, url |-> url]

\* time.sleep(0.6 if self.nvd_api_key else 6), in tenths of a second
NvdDelay(nvd_api_key) == IF TruthyText(nvd_api_key) THEN 6 ELSE 60

\* requests.get(self.nvd_base_url, params={"cveId": cve_id})
NvdUrl(cve_id) == <<"https://services.nvd.nist.gov/rest/json/cves/2.0", "?cveId=">> \o cve_id

\* response.raise_for_status() raises, or the request itself raised
Raises(response) == response.status = 0 \/ response.status >= 400

\* if data.get("vulnerabilities")
HasVulnerabilities_Always(data) == TRUE

HasVulnerabilities(data) == Get(data[1], "vulnerabilities", <<>>) # <<>>

\* the bucket directory of the v5 path, without the trailing xxx
Bucket_FirstDigit(id_num) == IF id_num = <<>> THEN <<"0">> ELSE <<id_num[1]>>

Bucket(id_num) ==
    IF Len(id_num) < 4 THEN <<"0">>
    ELSE IF Len(id_num) = 4 THEN <<id_num[1]>>
    ELSE SubSeq(id_num, 1, Len(id_num) - 3)

\* f"{year}/{group}/{cve_id}.json" for an id of three parts
V5Path(cve_id) ==
    Split(cve_id, "-")[2] \o <<"/">> \o Bucket(Split(cve_id, "-")[3]) \o <<"xxx", "/">>
        \o cve_id \o <<".json">>

V5Url(cve_id) ==
    <<"https://raw.githubusercontent.com/CVEProject/cvelistV5/main/cves", "/">>
        \o V5Path(cve_id)

\* the fetch client after construction: the cache directory is empty
InitFetch ==
    /\ InitTables
    /\ last = [op |-> "init", cve_id |-> <<>>, replaced |-> FALSE,
               record |-> Response(0, NoPayload)]
    /\ pc = "fetch"
    /\ run \in {[nvd_api_key |-> k, calls |-> 0, retry |-> FALSE] : k \in {None, "key"}}
    /\ files = <<>>
    /\ net = <<>>
    /\ clock = 0
    /\ kev_checker = None
    /\ result = NoPayload

\* the call repeats the call before it, which asked the source and got no record
Retry(op, cve_id) ==
    last.op = op /\ last.cve_id = cve_id /\ net # <<>> /\ result = NoPayload

FetchReturn(op, cve_id, response) ==
    /\ last' = [op |-> op, cve_id |-> cve_id, replaced |-> FALSE, record |-> response]
    /\ run' = [run EXCEPT !.calls = @ + 1, !.retry = Retry(op, cve_id)]
    /\ UNCHANGED <<storeVars, is_kev, kev_result, pc, normVars, extractVars,
                   clock, kev_checker>>

\* DataFetcher.fetch_nvd_cve(cve_id), the NVD answering with response
FetchNvdCve(cve_id, response) ==
    /\ pc = "fetch"
    /\ run.calls < MaxFetches
    /\ LET cached == load_from_cache(files, cve_id, "nvd")
       IN IF PayloadTruthy(cached)
          THEN /\ result' = cached
               /\ net' = <<>>
               /\ UNCHANGED files
          ELSE /\ net' = <<SleepEvent(NvdDelay(run.nvd_api_key)), GetEvent(NvdUrl(cve_id))>>
               /\ IF Raises(response) THEN /\ result' = NoPayload
                                           /\ UNCHANGED files
                  ELSE IF HasVulnerabilities(response.body)
                  THEN /\ files' = save_to_cache(files, cve_id, "nvd", response.body)
                       /\ result' = response.body
                  ELSE /\ result' = NoPayload
                       /\ UNCHANGED files
    /\ FetchReturn("fetch_nvd_cve", cve_id, response)

\* DataFetcher.fetch_v5_cve(cve_id), the CVE list answering with response
FetchV5Cve(cve_id, response) ==
    /\ pc = "fetch"
    /\ run.calls < MaxFetches
    /\ LET cached == load_from_cache(files, cve_id, "v5")
       IN IF PayloadTruthy(cached)
          THEN /\ result' = cached
               /\ net' = <<>>
               /\ UNCHANGED files
          ELSE IF Len(Split(cve_id, "-")) # 3
          THEN /\ result' = NoPayload
               /\ net' = <<>>
               /\ UNCHANGED files
          ELSE /\ net' = <<GetEvent(V5Url(cve_id))>>
               /\ IF Raises(response) THEN /\ result' = NoPayload
                                           /\ UNCHANGED files
                  ELSE /\ files' = save_to_cache(files, cve_id, "v5", response.body)
                       /\ result' = response.body
    /\ FetchReturn("fetch_v5_cve", cve_id, response)

NextFetch ==
    \/ \E cve_id \in FetchIds, response \in NvdResponses : FetchNvdCve(cve_id, response)
    \/ \E cve_id \in FetchIds, response \in V5Responses : FetchV5Cve(cve_id, response)

SpecFetch == InitFetch /\ [][NextFetch]_vars

-----------------------------------------------------------------------------
(* Claims about the fetch client *)

\* the step is a call of op
FetchStep(op) == run'.calls = run.calls + 1 /\ last'.op = op

WellFormed(cve_id) == Len(Split(cve_id, "-")) = 3

\* the digits after the second dash
Suffix(cve_id) == Split(cve_id, "-")[3]

ClaimedBucket(suffix) ==
    IF Len(suffix) >= 5 THEN [i \in 1..(Len(suffix) - 3) |-> suffix[i]]
    ELSE IF Len(suffix) = 4 THEN <<Head(suffix)>>
    ELSE <<"0">>

ClaimedPath(cve_id) ==
    Split(cve_id, "-")[2] \o <<"/">> \o ClaimedBucket(Suffix(cve_id)) \o <<"xxx", "/">>
        \o cve_id \o <<".json">>

\* C12: a request of fetch_v5_cve for CVE-<year>-<suffix> goes to
\* <year>/<bucket>xxx/<id>.json, the bucket being the suffix without its last
\* three digits for 5 or more digits, its first digit for exactly 4 and "0"
\* for fewer; an id that does not split into exactly three parts at the
\* dashes returns nothing, issues no request and writes no cache file.
C12_V5PathAndRejection ==
    [][FetchStep("fetch_v5_cve") =>
        /\ ~WellFormed(last'.cve_id)
              => net' = <<>> /\ files' = files /\ result' = NoPayload
        /\ WellFormed(last'.cve_id) /\ net' # <<>>
              => /\ Len(net') = 1
                 /\ net'[1].op = "get"
                 /\ SubSeq(net'[1].url, 3, Len(net'[1].url)) = ClaimedPath(last'.cve_id)]_vars

\* CVE-2021-12345 was requested from 2021/12xxx/CVE-2021-12345.json
C12_Witness ==
    /\ pc = "fetch"
    /\ last.op = "fetch_v5_cve"
    /\ last.cve_id = <<"CVE", "-", "2021", "-", "1", "2", "3", "4", "5">>
    /\ net # <<>>
    /\ SubSeq(net[1].url, 3, Len(net[1].url))
         = <<"2021", "/", "1", "2", "xxx", "/",
             "CVE", "-", "2021", "-", "1", "2", "3", "4", "5", ".json">>

\* the source a fetch operation reads
SourceOf(op) == IF op = "fetch_nvd_cve" THEN "nvd" ELSE "v5"

\* the step is a call of either fetch operation
AnyFetchStep == run'.calls = run.calls + 1

\* the cache file of the pair fetched by the step
FetchedPath == get_cache_path(last'.cve_id, SourceOf(last'.op))

\* C13: once a payload is cached for (cve_id, source), every later fetch of
\* the pair returns the cached payload with no network call and no delay,
\* and no fetch deletes or rewrites a cache entry that exists.
C13_CacheServedNeverRewritten ==
    [][AnyFetchStep =>
        /\ FetchedPath \in DOMAIN files
              => result' = files[FetchedPath] /\ net' = <<>>
        /\ \A path \in DOMAIN files :
              path \in DOMAIN files' /\ files'[path] = files[path]]_vars

\* the answers the claim names: a network error, an NVD body without a
\* non-empty vulnerabilities array, a 404 of the CVE list
NetworkError(response) == response.status = 0 \/ response.status >= 500

NoRecordAnswer(op, response) ==
    \/ NetworkError(response)
    \/ op = "fetch_v5_cve" /\ response.status = 404
    \/ /\ op = "fetch_nvd_cve"
       /\ response.status = 200
       /\ \/ "vulnerabilities" \notin DOMAIN response.body[1]
          \/ response.body[1].vulnerabilities = <<>>

\* the source answers with the record
Published(op, response) ==
    response = Response(200, IF op = "fetch_nvd_cve" THEN NvdFound ELSE V5Found)

\* C14: a fetch that is answered by a network error, by an NVD body without
\* a non-empty vulnerabilities array or by a 404 of the CVE list returns no
\* record and leaves the cache as it was; the next fetch of the same CVE
\* asks the source again and, when the source then answers with the record,
\* returns it and caches it.
C14_NoRecordNotCachedRetried ==
    [][AnyFetchStep =>
        /\ net' # <<>> /\ NoRecordAnswer(last'.op, last'.record)
              => result' = NoPayload /\ files' = files
        /\ run'.retry
              => /\ net' # <<>>
                 /\ Published(last'.op, last'.record)
                       => /\ result' = last'.record.body
                          /\ FetchedPath \in DOMAIN files'
                          /\ files'[FetchedPath] = last'.record.body]_vars

\* the NVD had no record of the CVE, the fetch was repeated, and the record
\* published in between was returned and cached
C14_Witness ==
    /\ pc = "fetch"
    /\ run.retry
    /\ last.op = "fetch_nvd_cve"
    /\ result = NvdFound
    /\ get_cache_path(last.cve_id, "nvd") \in DOMAIN files
    /\ files[get_cache_path(last.cve_id, "nvd")] = NvdFound

-----------------------------------------------------------------------------
(* CVEDetailsFetcher: the whole detail extraction and the batch loop
   (cvedetails_fetcher.py) *)

\* ids in one call of fetch_cve_details
MaxIds == 2

\* ref_links[:10]
RefLimit == 10

\* prod_rows[1:5]
RowLimit == 5

\* what one part of the page gives to the extraction: nothing that matches,
\* a value, or an exception raised by the call that reads it
Missing(v) == [state |-> "missing", value |-> v]
Supplied(v) == [state |-> "ok", value |-> v]
Raising(v) == [state |-> "raises", value |-> v]

\* the parts of the page in the order in which _extract_details reads them
FieldNames ==
    <<"description", "badges", "cwe", "published", "epss", "references", "products">>

DescriptionOpts ==
    {Missing(<<>>), Supplied(<<" ", "A", " ", "flaw", " ">>), Raising(<<>>)}

BadgeOpts == {Supplied(<<>>), Supplied(<<<<"9", ".", "8">>>>), Raising(<<>>)}

\* the links to /cwe-details/: the digits the pattern finds in the href
\* (none if it does not match) and the text of the link
CweLink(digits, text) == [digits |-> digits, text |-> text]

CweOpts ==
    {Supplied(<<>>),
     Supplied(<<CweLink("", <<"All">>), CweLink("79", <<" ", "XSS">>)>>),
     Raising(<<>>)}

PublishedOpts == {Missing(None), Supplied("2024-01-02"), Raising(None)}

\* the text that [\d.]+ matches before the percent sign
EpssOpts ==
    {Missing(<<>>), Supplied(<<"0", ".", "0", "4">>), Supplied(<<"1", ".", "2", ".", "3">>)}

\* hrefs of the reference table; those of the site itself are left out
OwnLinks == {"https://www.cvedetails.com/cve/1"}

ReferenceOpts ==
    {Supplied(<<>>),
     Supplied(<<"https://vendor.example/advisory", "https://www.cvedetails.com/cve/1">>),
     Raising(<<>>)}

\* the rows of table#vulnprodstable, each a sequence of cell texts
ProductRowOpts ==
    {Supplied(<<>>),
     Supplied(<<<<"#", "Vendor", "Product">>, <<"1", "Acme", "Widget">>, <<"2", "Acme">>>>),
     Raising(<<>>)}

\* page.goto / wait_for_load_state: "" if the page loads, else the message
LoadOpts == {"", "Timeout 30000ms exceeded"}

DetailPages ==
    [load : {""}, description : DescriptionOpts, badges : BadgeOpts, cwe : CweOpts,
     published : PublishedOpts, epss : EpssOpts, references : ReferenceOpts,
     products : ProductRowOpts]

\* the statement that reads the part raises: the Playwright call fails, or
\* float() is given a text that is no number
Throws(page, f) ==
    \/ page[f].state = "raises"
    \/ f = "epss" /\ page.epss.state = "ok" /\ ParseFloat(page.epss.value) = NoneNum

\* the part is read and read to the end: the one try block of
\* _extract_details is left at the first statement that raises
Done(page, i) == \A j \in 1..i : ~Throws(page, FieldNames[j])

\* the first link whose href matches /cwe-details/(\d+)/
RECURSIVE FirstCwe(_)
FirstCwe(links) ==
    IF links = <<>> THEN [cwe_id |-> NoneStr, cwe_name |-> NoneStr]
    ELSE IF Head(links).digits # ""
    THEN [cwe_id |-> <<"CWE-", Head(links).digits>>, cwe_name |-> Strip(Head(links).text)]
    ELSE FirstCwe(Tail(links))

\* href and not "cvedetails.com" in href, for the first ten links
ReferenceHrefs(hrefs) ==
    SelectSeq(Take(hrefs, RefLimit), LAMBDA href : href # "" /\ href \notin OwnLinks)

\* rows 1 to 4 that have three cells and a vendor and a product
RECURSIVE AffectedProducts(_)
AffectedProducts(rows) ==
    IF rows = <<>> THEN <<>>
    ELSE (IF Len(Head(rows)) >= 3 /\ Head(rows)[2] # "" /\ Head(rows)[3] # ""
          THEN <<<<Head(rows)[2], " ", Head(rows)[3]>>>>
          ELSE <<>>) \o AffectedProducts(Tail(rows))

\* the value each part gives when its statements run to the end
FieldValue(page, f) ==
    CASE f = "description" ->
           [description |-> IF page.description.state = "ok"
                            THEN Strip(page.description.value) ELSE NoneStr]
      [] f = "badges" -> ExtractScore(page.badges.value, NoScoreDetails)
      [] f = "cwe" -> FirstCwe(page.cwe.value)
      [] f = "published" ->
           [published_date |-> IF page.published.state = "ok"
                               THEN page.published.value ELSE None]
      [] f = "epss" ->
           [epss_score |-> IF page.epss.state = "ok"
                           THEN ParseFloat(page.epss.value) ELSE NoneNum]
      [] f = "references" -> [references |-> ReferenceHrefs(page.references.value)]
      [] f = "products" ->
           [affected_products |->
              AffectedProducts(SubSeq(page.products.value, 2,
                 IF Len(page.products.value) < RowLimit
                 THEN Len(page.products.value) ELSE RowLimit))]

\* the details dict as _extract_details creates it
NoDetails(cve_id) ==
    [cve_id |-> cve_id, description |-> NoneStr, cvss_v31_base_score |-> NoneNum,
     cvss_v31_severity |-> None, cvss_vector |-> None, cwe_id |-> NoneStr,
     cwe_name |-> NoneStr, published_date |-> None, last_modified |-> None,
     epss_score |-> NoneNum, references |-> <<>>, affected_products |-> <<>>]

\* CVEDetailsFetcher._extract_details(page, cve_id)
RECURSIVE ExtractFrom(_, _, _)
ExtractFrom(page, d, i) ==
    IF i > Len(FieldNames) THEN d
    ELSE IF Done(page, i)
    THEN ExtractFrom(page, FieldValue(page, FieldNames[i]) @@ d, i + 1)
    ELSE ExtractFrom(page, d, i + 1)

extract_details(page, cve_id) == ExtractFrom(page, NoDetails(cve_id), 1)

\* the pages of a batch: one that does not load, one that supplies every
\* part, one whose EPSS text is no number, one that supplies nothing
FullPage ==
    [load |-> "", description |-> Supplied(<<" ", "A", " ", "flaw", " ">>),
     badges |-> Supplied(<<<<"9", ".", "8">>>>),
     cwe |-> Supplied(<<CweLink("", <<"All">>), CweLink("79", <<" ", "XSS">>)>>),
     published |-> Supplied("2024-01-02"), epss |-> Supplied(<<"0", ".", "0", "4">>),
     references |-> Supplied(<<"https://vendor.example/advisory",
                               "https://www.cvedetails.com/cve/1">>),
     products |-> Supplied(<<<<"#", "Vendor", "Product">>, <<"1", "Acme", "Widget">>,
                             <<"2", "Acme">>>>)]

BatchPages ==
    {[FullPage EXCEPT !.load = "Timeout 30000ms exceeded"], FullPage,
     [FullPage EXCEPT !.epss = Supplied(<<"1", ".", "2", ".", "3">>)],
     [FullPage EXCEPT !.description = Raising(<<>>)]}

DetailIds == {"CVE-2024-0001", "CVE-2024-0002", "CVE-2024-0003"}

\* the loop of fetch_cve_details
RECURSIVE FetchLoop(_, _, _)
FetchLoop(cve_ids, site, results) ==
    IF cve_ids = <<>> THEN results
    ELSE LET cve_id == Head(cve_ids)
             entry == IF site[cve_id].load # ""
                      THEN [error |-> site[cve_id].load]
                      ELSE extract_details(site[cve_id], cve_id)
         IN  FetchLoop(Tail(cve_ids), site,
                       [k \in DOMAIN results \cup {cve_id} |->
                          IF k = cve_id THEN entry ELSE results[k]])

InitDetails ==
    /\ InitTables
    /\ last = [op |-> "init", cve_id |-> None, replaced |-> FALSE, record |-> None]
    /\ pc = "idle"
    /\ run = NoRun
    /\ InitEnv

\* CVEDetailsFetcher._extract_details(page, cve_id) on a loaded page
ExtractPage(page, cve_id) ==
    /\ pc = "idle"
    /\ details' = extract_details(page, cve_id)
    /\ run' = [page |-> page]
    /\ pc' = "extracted"
    /\ UNCHANGED <<storeVars, is_kev, kev_result, last, normVars, score_elems, envVars>>

\* CVEDetailsFetcher.fetch_cve_details(cve_ids), the site serving the pages
FetchCveDetails(cve_ids, site) ==
    /\ pc = "idle"
    /\ result' = FetchLoop(cve_ids, site, EmptyDict)
    /\ run' = [cve_ids |-> cve_ids, site |-> site]
    /\ pc' = "fetched"
    /\ UNCHANGED <<storeVars, is_kev, kev_result, last, normVars, extractVars,
                   files, net, clock, kev_checker>>

NextDetails ==
    \/ \E page \in DetailPages : ExtractPage(page, "CVE-2024-0001")
    \/ \E cve_ids \in SeqsUpTo(DetailIds, MaxIds), site \in [DetailIds -> BatchPages] :
          FetchCveDetails(cve_ids, site)

SpecDetails == InitDetails /\ [][NextDetails]_vars

-----------------------------------------------------------------------------
(* Claims about the detail fetcher *)

\* an exception is raised while the page is loaded or while it is read
RaisesFor(page) ==
    page.load # "" \/ \E i \in DOMAIN FieldNames : Throws(page, FieldNames[i])

\* C15: fetch_cve_details returns a map whose keys are exactly the ids
\* supplied; the entry of an id is {error: message} if and only if an
\* exception was raised while its page was loaded or its details were
\* extracted, and every other id has an entry with its details.
C15_ErrorEntryPerFailedCve ==
    pc = "fetched" =>
        /\ DOMAIN result = Range(run.cve_ids)
        /\ \A cve_id \in DOMAIN result :
              IF RaisesFor(run.site[cve_id])
              THEN DOMAIN result[cve_id] = {"error"}
              ELSE result[cve_id] = extract_details(run.site[cve_id], cve_id)

\* the part of C15 that holds: the keys are the ids supplied, a page that
\* does not load gives {error: message} with the message of the exception,
\* and every other id has its details
C15_LoadFailuresIsolated ==
    pc = "fetched" =>
        /\ DOMAIN result = Range(run.cve_ids)
        /\ \A cve_id \in DOMAIN result :
              IF run.site[cve_id].load # ""
              THEN result[cve_id] = [error |-> run.site[cve_id].load]
              ELSE result[cve_id] = extract_details(run.site[cve_id], cve_id)

\* C16: a part of the page whose extraction fails leaves its own keys of
\* details null or empty, and every part that the page supplies and whose
\* extraction does not fail is extracted, wherever the failing part stands.
C16_FieldFailuresIndependent ==
    pc = "extracted" =>
        \A i \in DOMAIN FieldNames :
            LET value == FieldValue(run.page, FieldNames[i])
            IN  \A k \in DOMAIN value :
                    details[k] = IF Throws(run.page, FieldNames[i])
                                 THEN NoDetails("CVE-2024-0001")[k]
                                 ELSE value[k]

\* the part of C16 that holds: a part whose extraction raises nothing is
\* extracted if no part before it raised, and every part from the first one
\* that raises onwards is left null or empty
C16_FieldsUpToFirstFailure ==
    pc = "extracted" =>
        \A i \in DOMAIN FieldNames :
            LET value == FieldValue(run.page, FieldNames[i])
            IN  \A k \in DOMAIN value :
                    details[k] = IF \E j \in 1..i : Throws(run.page, FieldNames[j])
                                 THEN NoDetails("CVE-2024-0001")[k]
                                 ELSE value[k]

-----------------------------------------------------------------------------
(* VendorScraper.get_vendor_cves: the discovery map (vendor_scraper.py) *)

\* product-list pages of the vendor
MaxListPages == 2

\* for i in range(2, 10): product-list pages 2 to 9 are probed
LastProbedPage == 9

Lowers ==
    <<"a", "b", "c", "d", "e", "f", "g", "h", "i", "j", "k", "l", "m",
      "n", "o", "p", "q", "r", "s", "t", "u", "v", "w", "x", "y", "z">>

Uppers ==
    <<"A", "B", "C", "D", "E", "F", "G", "H", "I", "J", "K", "L", "M",
      "N", "O", "P", "Q", "R", "S", "T", "U", "V", "W", "X", "Y", "Z">>

IsLetter(ch) == \E i \in DOMAIN Lowers : ch = Lowers[i] \/ ch = Uppers[i]

Upper(ch) ==
    IF \E i \in DOMAIN Lowers : ch = Lowers[i]
    THEN Uppers[CHOOSE i \in DOMAIN Lowers : ch = Lowers[i]] ELSE ch

Lower(ch) ==
    IF \E i \in DOMAIN Uppers : ch = Uppers[i]
    THEN Lowers[CHOOSE i \in DOMAIN Uppers : ch = Uppers[i]] ELSE ch

\* str.rstrip(chars): drop every trailing character that is in chars
RECURSIVE RStripChars(_, _)
RStripChars(s, chars) ==
    IF s # <<>> /\ s[Len(s)] \in chars
    THEN RStripChars(SubSeq(s, 1, Len(s) - 1), chars) ELSE s

\* str.replace(old, new) for single characters
Replace(s, old, new) == [i \in DOMAIN s |-> IF s[i] = old THEN new ELSE s[i]]

\* str.title(): a letter after a letter is lowered, any other letter raised
Title(s) ==
    [i \in DOMAIN s |->
        IF i > 1 /\ IsLetter(s[i - 1]) THEN Lower(s[i]) ELSE Upper(s[i])]

\* href.rstrip('.html').split('/')[-1].replace('-', ' ').title()
ProductName_Identity(href) ==
    LET parts == Split(href, "/") IN parts[Len(parts)]

ProductName(href) ==
    LET parts == Split(RStripChars(href, {".", "h", "t", "m", "l"}), "/")
    IN  Title(Replace(parts[Len(parts)], "-", " "))

\* hrefs of vulnerability-list links: the directories are one lexeme each,
\* the file name is spelled out in characters
Href(product_id, file) ==
    <<"/", "vulnerability-list", "/", "vendor_id-1", "/", product_id, "/">> \o file

ProductHrefs ==
    {Href("product_id-7", <<"S", "h", "e", "l", "l", ".", "h", "t", "m", "l">>),
     Href("product_id-8", <<"w", "e", "b", "-", "A", "P", "I", ".", "h", "t", "m", "l">>)}

\* a product-list page: goto raises, or the hrefs of its product links
ListPages ==
    {Raising(<<>>)} \cup {Supplied(hrefs) : hrefs \in SeqsUpTo(ProductHrefs, 2)}

\* texts of the links a[href^='/cve/CVE-']
CveA == <<"CVE-", "2024", "-", "0001">>
CveB == <<" ", "CVE-", "2024", "-", "0002", " ">>
CveC == <<"CVE-", "2024", "-", "0003">>

\* a vulnerability-list page of a product: reading it raises or gives the
\* link texts; the next-page button is absent, works, or raises when clicked
ListingPage(state, texts, next) == [state |-> state, texts |-> texts, next |-> next]

Listings ==
    {<<ListingPage("ok", <<CveA, CveB>>, "none")>>,
     <<ListingPage("ok", <<CveB, <<"Details">>>>, "ok"), ListingPage("ok", <<CveC>>, "none")>>,
     <<ListingPage("raises", <<>>, "none")>>,
     <<ListingPage("ok", <<CveA>>, "ok"), ListingPage("raises", <<>>, "none")>>,
     <<ListingPage("ok", <<CveB>>, "raises"), ListingPage("ok", <<CveC>>, "none")>>}

\* the site of the vendor: the product-list pages and the listing of every
\* product
Sites ==
    [lists : SeqsUpTo(ListPages, MaxListPages) \ {<<>>}, listing : [ProductHrefs -> Listings]]

\* product_list_urls: the first page, and the pages 2, 3, .. up to the last
\* probed one as long as the probe loads and shows product links; no page is
\* probed if the first page does not load
RECURSIVE ProbeFrom(_, _)
ProbeFrom(lists, i) ==
    IF i > LastProbedPage \/ i > Len(lists) THEN i - 1
    ELSE IF lists[i].state = "ok" /\ lists[i].value # <<>> THEN ProbeFrom(lists, i + 1)
    ELSE i - 1

ProductListUrls(lists) == IF lists[1].state = "ok" THEN ProbeFrom(lists, 2) ELSE 1

\* product_urls: the hrefs of the product links of the list pages that load
RECURSIVE ProductUrls(_, _)
ProductUrls(lists, n) ==
    IF n = 0 THEN <<>>
    ELSE ProductUrls(lists, n - 1)
           \o (IF lists[n].state = "ok" THEN lists[n].value ELSE <<>>)

\* Dedupe products: the first occurrence of every url
RECURSIVE Dedupe(_, _)
Dedupe(urls, seen_urls) ==
    IF urls = <<>> THEN <<>>
    ELSE IF Head(urls) \in seen_urls THEN Dedupe(Tail(urls), seen_urls)
    ELSE <<Head(urls)>> \o Dedupe(Tail(urls), seen_urls \cup {Head(urls)})

UniqueProducts(urls) == Dedupe(urls, {})

\* mapping[txt] = {prod_name}: the products found before are forgotten
RECURSIVE AddLinks_Overwrite(_, _, _)
AddLinks_Overwrite(mapping, texts, prod_name) ==
    IF texts = <<>> THEN mapping
    ELSE LET txt == Strip(Head(texts))
         IN  IF txt # <<>> /\ Head(txt) = "CVE-"
             THEN AddLinks_Overwrite([k \in DOMAIN mapping \cup {txt} |->
                                        IF k = txt THEN {prod_name} ELSE mapping[k]],
                                     Tail(texts), prod_name)
             ELSE AddLinks_Overwrite(mapping, Tail(texts), prod_name)

\* mapping[txt].add(prod_name) for the links of one page
RECURSIVE AddLinks(_, _, _)
AddLinks(mapping, texts, prod_name) ==
    IF texts = <<>> THEN mapping
    ELSE LET txt == Strip(Head(texts))
         IN  IF txt # <<>> /\ Head(txt) = "CVE-"
             THEN AddLinks([k \in DOMAIN mapping \cup {txt} |->
                              IF k = txt
                              THEN Get(mapping, txt, {}) \cup {prod_name}
                              ELSE mapping[k]],
                           Tail(texts), prod_name)
             ELSE AddLinks(mapping, Tail(texts), prod_name)

\* the loop over the pages of one product, started at page i; a page that
\* raises ends the product with what was added before
RECURSIVE AddPages(_, _, _, _)
AddPages(mapping, pages, i, prod_name) ==
    IF i > Len(pages) \/ pages[i].state = "raises" THEN mapping
    ELSE LET added == AddLinks(mapping, pages[i].texts, prod_name)
         IN  IF pages[i].next = "ok"
             THEN AddPages(added, pages, i + 1, prod_name)
             ELSE added

\* Scrape CVEs from each product
RECURSIVE ScrapeProducts(_, _, _)
ScrapeProducts(mapping, urls, site) ==
    IF urls = <<>> THEN mapping
    ELSE ScrapeProducts(
            AddPages(mapping, site.listing[Head(urls)], 1, ProductName(Head(urls))),
            Tail(urls), site)

get_vendor_cves(site) ==
    ScrapeProducts(EmptyDict,
        UniqueProducts(ProductUrls(site.lists, ProductListUrls(site.lists))), site)

InitScraper ==
    /\ InitTables
    /\ last = [op |-> "init", cve_id |-> None, replaced |-> FALSE, record |-> None]
    /\ pc = "idle"
    /\ run = NoRun
    /\ InitEnv

\* VendorScraper.get_vendor_cves(vendor_id, vendor_name) on the site
GetVendorCves(site) ==
    /\ pc = "idle"
    /\ result' = get_vendor_cves(site)
    /\ run' = [site |-> site]
    /\ pc' = "scraped"
    /\ UNCHANGED <<storeVars, is_kev, kev_result, last, normVars, extractVars,
                   files, net, clock, kev_checker>>

NextScraper == \E site \in Sites : GetVendorCves(site)

SpecScraper == InitScraper /\ [][NextScraper]_vars

-----------------------------------------------------------------------------
(* Claims about the discovery map *)

\* the products whose links stand on the product-list pages that were read
FoundProducts(site) ==
    {href \in ProductHrefs :
        \E n \in 1..ProductListUrls(site.lists) :
            site.lists[n].state = "ok" /\ href \in Range(site.lists[n].value)}

\* page i of a listing is reached through the next-page buttons
Reached(pages, i) ==
    \A j \in 1..(i - 1) : pages[j].state = "ok" /\ pages[j].next = "ok"

\* the scrape of the product fails: a page that is reached raises
ScrapeFails(pages) ==
    \E i \in DOMAIN pages : Reached(pages, i) /\ pages[i].state = "raises"

\* the CVE ids that the links of a page show
CvesOn(page) ==
    {Strip(txt) : txt \in {t \in Range(page.texts) : Strip(t) # <<>> /\ Head(Strip(t)) = "CVE-"}}

\* the pages of a listing that were reached and read
PagesRead(pages) ==
    {i \in DOMAIN pages : Reached(pages, i) /\ pages[i].state = "ok"}

ListedBy(site, href, cve) ==
    \E i \in PagesRead(site.listing[href]) : cve \in CvesOn(site.listing[href][i])

KnownCves == {Strip(CveA), Strip(CveB), Strip(CveC)}

\* the map has exactly the CVEs that some product is associated with
MapIs(products_of(_)) ==
    /\ DOMAIN result = {cve \in KnownCves : products_of(cve) # {}}
    /\ \A cve \in DOMAIN result : result[cve] = products_of(cve)

-----------------------------------------------------------------------------
(* VendorScraper.get_all_vendors: the vendor list and its cache file
   (vendor_scraper.py) *)

\* cache_age < 7 * 24 * 3600, in hours
VendorCacheHours == 168

\* the instants, in hours, at which the model looks at the clock
Instants == {0, 23, 24, 25, 167, 168, 192}

\* VENDOR_CACHE_FILE
VendorCacheFile == <<"cache", "/", "vendors.json">>

\* a file with its modification time
File(mtime, content) == [mtime |-> mtime, content |-> content]

\* chars = list("ABCDEFGHIJKLMNOPQRSTUVWXYZ") + ["0-9"]
Chars == Uppers \o <<"0-9">>

\* the code point of a letter
CharCode(ch) ==
    IF \E i \in DOMAIN Uppers : ch = Uppers[i]
    THEN 64 + (CHOOSE i \in DOMAIN Uppers : ch = Uppers[i])
    ELSE 96 + (CHOOSE i \in DOMAIN Lowers : ch = Lowers[i])

\* a <= b for strings, compared character by character
RECURSIVE StrLeq(_, _)
StrLeq(a, b) ==
    IF a = <<>> THEN TRUE
    ELSE IF b = <<>> THEN FALSE
    ELSE IF Head(a) = Head(b) THEN StrLeq(Tail(a), Tail(b))
    ELSE CharCode(Head(a)) < CharCode(Head(b))

\* str.lower()
LowerStr(s) == [i \in DOMAIN s |-> Lower(s[i])]

\* key=lambda x: x["name"].lower()
SortKey_Plain(v) == v.name

SortKey(v) == LowerStr(v.name)

\* list.sort(key): stable, so an element goes behind every element whose key
\* is not greater
RECURSIVE InsertSorted(_, _)
InsertSorted(sorted, v) ==
    IF sorted = <<>> THEN <<v>>
    ELSE IF StrLeq(SortKey(Head(sorted)), SortKey(v))
    THEN <<Head(sorted)>> \o InsertSorted(Tail(sorted), v)
    ELSE <<v>> \o sorted

RECURSIVE SortVendors(_)
SortVendors(vendors) ==
    IF vendors = <<>> THEN <<>>
    ELSE InsertSorted(SortVendors(SubSeq(vendors, 1, Len(vendors) - 1)),
                      vendors[Len(vendors)])

\* Dedupe by vendor ID: the first entry of every id
RECURSIVE DedupeById(_, _)
DedupeById(vendors, seen_ids) ==
    IF vendors = <<>> THEN <<>>
    ELSE IF Head(vendors).id \in seen_ids THEN DedupeById(Tail(vendors), seen_ids)
    ELSE <<Head(vendors)>> \o DedupeById(Tail(vendors), seen_ids \cup {Head(vendors).id})

\* a vendor link: its href, "/" being a lexeme and the id spelled in
\* characters, and its text
VendorLink(href, text) == [href |-> href, text |-> text]

VendorHref(id, file) == <<"/", "vendor", "/">> \o id \o <<"/", file>>

\* the index of the part after the first part that is "vendor", 0 if none
AfterVendor(parts) ==
    IF \E i \in DOMAIN parts : parts[i] = <<"vendor">>
    THEN LET i == CHOOSE i \in DOMAIN parts :
                     parts[i] = <<"vendor">> /\ \A j \in 1..(i - 1) : parts[j] # <<"vendor">>
         IN  IF i + 1 <= Len(parts) THEN i + 1 ELSE 0
    ELSE 0

\* the vendors.append of one link: name non-empty and the id all digits
VendorsOfLink(link) ==
    LET name == Strip(link.text)
        parts == Split(link.href, "/")
    IN  IF /\ link.href # <<>>
           /\ name # <<>>
           /\ AfterVendor(parts) # 0
           /\ parts[AfterVendor(parts)] # <<>>
           /\ AllDigits(parts[AfterVendor(parts)])
        THEN <<[id |-> parts[AfterVendor(parts)], name |-> name, url |-> link.href]>>
        ELSE <<>>

RECURSIVE VendorsOfLinks(_)
VendorsOfLinks(links) ==
    IF links = <<>> THEN <<>>
    ELSE VendorsOfLink(Head(links)) \o VendorsOfLinks(Tail(links))

\* the pages of one bucket from page i on; a page that raises ends the
\* bucket with what was appended before
RECURSIVE VendorsOfPages(_, _)
VendorsOfPages(pages, i) ==
    IF i > Len(pages) \/ pages[i].state = "raises" THEN <<>>
    ELSE VendorsOfLinks(pages[i].texts)
           \o (IF pages[i].next = "ok" THEN VendorsOfPages(pages, i + 1) ELSE <<>>)

\* for char in chars
RECURSIVE VendorsOfBuckets(_, _)
VendorsOfBuckets(site, i) ==
    IF i > Len(Chars) THEN <<>>
    ELSE VendorsOfPages(site[Chars[i]], 1) \o VendorsOfBuckets(site, i + 1)

\* the unique, sorted list that a scrape of the site gives
ScrapedVendors(site) == SortVendors(DedupeById(VendorsOfBuckets(site, 1), {}))

\* the requests of a scrape: one index page per bucket
BucketUrl(char) == <<"https://www.cvedetails.com", "/vendor/firstchar-", char, "/">>

BucketRequests == [i \in DOMAIN Chars |-> GetEvent(BucketUrl(Chars[i]))]

\* vendor links: " ac " with id 1, "Bb" with id 2, "Ac" with id 1 again,
\* "Ab" with id 3, and a link to a page that is no vendor page
LinkAc == VendorLink(VendorHref(<<"1">>, "Ac.html"), <<" ", "a", "c", " ">>)
LinkBb == VendorLink(VendorHref(<<"2">>, "Bb.html"), <<"B", "b">>)
LinkAcAgain == VendorLink(VendorHref(<<"1">>, "Ac.html"), <<"A", "c">>)
LinkAb == VendorLink(VendorHref(<<"3">>, "Ab.html"), <<"A", "b">>)
LinkTop == VendorLink(VendorHref(<<"t", "o", "p">>, "list.html"), <<"T", "o", "p">>)

BucketOpts ==
    {<<ListingPage("ok", <<LinkBb, LinkAc>>, "none")>>,
     <<ListingPage("ok", <<LinkAcAgain, LinkTop>>, "ok"),
       ListingPage("ok", <<LinkAb>>, "none")>>,
     <<ListingPage("raises", <<>>, "none")>>,
     <<ListingPage("ok", <<LinkAb>>, "raises"), ListingPage("ok", <<LinkBb>>, "none")>>}

\* the index of the site: the buckets A and B vary, the others are empty
VendorSites ==
    {[char \in Range(Chars) |->
        IF char = "A" THEN a ELSE IF char = "B" THEN b
        ELSE <<ListingPage("ok", <<>>, "none")>>] : a \in BucketOpts, b \in BucketOpts}

InitVendors ==
    /\ InitTables
    /\ last = [op |-> "init", cve_id |-> None, replaced |-> FALSE, record |-> None]
    /\ pc = "idle"
    /\ run \in {[force_refresh |-> FALSE, site |-> site] : site \in VendorSites}
    /\ files = <<>>
    /\ net = <<>>
    /\ clock = 0
    /\ kev_checker = None
    /\ result = <<>>

\* time passes
Advance(t) ==
    /\ t > clock
    /\ clock' = t
    /\ UNCHANGED <<storeVars, is_kev, kev_result, last, pc, run, normVars,
                   extractVars, files, net, kev_checker, result>>

\* VendorScraper.get_all_vendors(force_refresh)
GetAllVendors(force_refresh) ==
    /\ pc = "idle"
    /\ IF /\ ~force_refresh
          /\ VendorCacheFile \in DOMAIN files
          /\ clock - files[VendorCacheFile].mtime < VendorCacheHours
       THEN /\ result' = files[VendorCacheFile].content
            /\ net' = <<>>
            /\ UNCHANGED files
       ELSE /\ result' = ScrapedVendors(run.site)
            /\ net' = BucketRequests
            /\ files' = WriteFile(files, VendorCacheFile,
                                  File(clock, ScrapedVendors(run.site)))
    /\ run' = [run EXCEPT !.force_refresh = force_refresh]
    /\ UNCHANGED <<storeVars, is_kev, kev_result, last, pc, normVars, extractVars,
                   clock, kev_checker>>

\* the site changes what its index shows
SiteChanges(site) ==
    /\ site # run.site
    /\ run' = [run EXCEPT !.site = site]
    /\ UNCHANGED <<storeVars, is_kev, kev_result, last, pc, normVars, extractVars,
                   envVars>>

NextVendors ==
    \/ \E force_refresh \in BOOLEAN : GetAllVendors(force_refresh)
    \/ \E t \in Instants : Advance(t)
    \/ \E site \in VendorSites : SiteChanges(site)

SpecVendors == InitVendors /\ [][NextVendors]_vars

-----------------------------------------------------------------------------
(* Claims about the vendor list *)

\* the step is a call of get_all_vendors: neither the clock nor the site moves
VendorCallStep == clock' = clock /\ run'.site = run.site

\* the cache file exists and is younger than 7 days
CacheYoungerThan7Days ==
    /\ VendorCacheFile \in DOMAIN files
    /\ clock - files[VendorCacheFile].mtime < 7 * 24

OneEntryPerId(vendors) ==
    \A i, j \in DOMAIN vendors : vendors[i].id = vendors[j].id => i = j

\* in the order of the names, capitals and small letters taken alike
SortedByName(vendors) ==
    \A i, j \in DOMAIN vendors :
        i < j => StrLeq(LowerStr(vendors[i].name), LowerStr(vendors[j].name))

\* C18: get_all_vendors returns the cached list, without a request, if and
\* only if force_refresh is false and the cache file exists and is younger
\* than 7 days; otherwise it requests all 27 index buckets, and the list it
\* returns and writes to the cache file has at most one entry per vendor id
\* and is sorted by name.
C18_CacheOrScrapeSortedUnique ==
    [][VendorCallStep =>
        IF ~run'.force_refresh /\ CacheYoungerThan7Days
        THEN /\ result' = files[VendorCacheFile].content
             /\ net' = <<>>
             /\ files' = files
        ELSE /\ Len(net') = 27
             /\ Cardinality({net'[i].url : i \in DOMAIN net'}) = 27
             /\ OneEntryPerId(result')
             /\ SortedByName(result')
             /\ VendorCacheFile \in DOMAIN files'
             /\ files'[VendorCacheFile] = File(clock, result')]_vars

\* the list scraped at hour 0 from links Bb, ac, Ac (the id of ac again), a
\* link that is no vendor and Ab is served from the cache at hour 167
C18_Witness ==
    /\ pc = "idle"
    /\ clock = 167
    /\ VendorCacheFile \in DOMAIN files
    /\ files[VendorCacheFile].mtime = 0
    /\ net = <<>>
    /\ result = files[VendorCacheFile].content
    /\ [i \in DOMAIN result |-> result[i].name]
         = <<<<"A", "b">>, <<"a", "c">>, <<"B", "b">>>>

-----------------------------------------------------------------------------
(* KEVChecker: the catalog, its cache file and the singleton (kev_checker.py) *)

\* CACHE_DURATION_HOURS
CACHE_DURATION_HOURS == 24

\* CACHE_FILE
KevCacheFile == <<".kev_cache.json">>

KevUrl == <<"https://www.cisa.gov/sites/default/files/feeds/known_exploited_vulnerabilities.json">>

\* _kev_checker = None
NoChecker == <<>>

\* what CISA answers: the request fails, a catalog of one entry, a catalog
\* of two entries and one without cveID, a body without vulnerabilities
KevResponses ==
    {Response(0, NoPayload), Response(503, NoPayload),
     Response(200, <<[vulnerabilities |-> <<[cveID |-> "CVE-2024-0001"]>>]>>),
     Response(200, <<[vulnerabilities |-> <<[cveID |-> "CVE-2024-0001"],
                                            [cveID |-> "CVE-2024-0002"],
                                            [vendorProject |-> "Acme"]>>]>>),
     Response(200, <<[title |-> "CISA Catalog"]>>)}

\* {v['cveID'] for v in vulnerabilities if 'cveID' in v}
KevIdsOf(data) ==
    {v.cveID : v \in {x \in Range(Get(data[1], "vulnerabilities", <<>>)) :
                         "cveID" \in DOMAIN x}}

\* KEVChecker._fetch_kev_data: the set, the files and the requests after it
fetch_kev_data(fs, now, response) ==
    IF Raises(response)
    THEN [kev_cve_set |-> {}, files |-> fs, net |-> <<GetEvent(KevUrl)>>]
    ELSE [kev_cve_set |-> KevIdsOf(response.body),
          files |-> WriteFile(fs, KevCacheFile,
                              [cached_at |-> now, cve_ids |-> KevIdsOf(response.body)]),
          net |-> <<GetEvent(KevUrl)>>]

\* the cache file exists and is fresh
KevCacheFresh(fs, now) ==
    /\ KevCacheFile \in DOMAIN fs
    /\ now - fs[KevCacheFile].cached_at < CACHE_DURATION_HOURS

\* KEVChecker._load_kev_data
load_kev_data(fs, now, response) ==
    IF KevCacheFresh(fs, now)
    THEN [kev_cve_set |-> fs[KevCacheFile].cve_ids, files |-> fs, net |-> <<>>]
    ELSE fetch_kev_data(fs, now, response)

InitKevCache ==
    /\ InitTables
    /\ last = [op |-> "init", cve_id |-> None, replaced |-> FALSE, record |-> None]
    /\ pc = "idle"
    /\ run = [consulted_at |-> 0]
    /\ files = <<>>
    /\ net = <<>>
    /\ clock = 0
    /\ kev_checker = NoChecker
    /\ result = {}

KevReturn(op) ==
    /\ last' = [op |-> op, cve_id |-> None, replaced |-> FALSE, record |-> None]
    /\ run' = [consulted_at |-> clock]
    /\ UNCHANGED <<storeVars, is_kev, kev_result, pc, normVars, extractVars, clock>>

\* get_kev_checker().get_all_kev_cves(), CISA answering with response if
\* it is asked
GetAllKevCves(response) ==
    /\ IF kev_checker = NoChecker
       THEN LET loaded == load_kev_data(files, clock, response)
            IN  /\ kev_checker' = <<[kev_cve_set |-> loaded.kev_cve_set]>>
                /\ files' = loaded.files
                /\ net' = loaded.net
                /\ result' = loaded.kev_cve_set
       ELSE /\ result' = kev_checker[1].kev_cve_set
            /\ net' = <<>>
            /\ UNCHANGED <<kev_checker, files>>
    /\ KevReturn("get_all_kev_cves")

\* get_kev_checker().refresh()
RefreshKev(response) ==
    /\ LET removed == [path \in DOMAIN files \ {KevCacheFile} |-> files[path]]
           fetched == fetch_kev_data(removed, clock, response)
       IN  /\ kev_checker' = <<[kev_cve_set |-> fetched.kev_cve_set]>>
           /\ files' = fetched.files
           /\ net' = fetched.net
           /\ result' = fetched.kev_cve_set
    /\ KevReturn("refresh")

\* the process ends and a new one starts: the module is loaded anew
Restart ==
    /\ kev_checker # NoChecker
    /\ kev_checker' = NoChecker
    /\ last' = [op |-> "exit", cve_id |-> None, replaced |-> FALSE, record |-> None]
    /\ UNCHANGED <<storeVars, is_kev, kev_result, pc, run, normVars, extractVars,
                   files, net, clock, result>>

NextKevCache ==
    \/ \E response \in KevResponses : GetAllKevCves(response)
    \/ \E response \in KevResponses : RefreshKev(response)
    \/ Restart
    \/ \E t \in Instants : Advance(t)

SpecKevCache == InitKevCache /\ [][NextKevCache]_vars

-----------------------------------------------------------------------------
(* Claims about the KEV catalog *)

\* the step is a consultation of the KEV set
ConsultStep == last'.op = "get_all_kev_cves" /\ clock' = clock

\* C19: a consultation of the KEV set more than 24 hours after the catalog
\* was cached fetches the catalog again first, and a consultation within 24
\* hours is answered from the disk cache without a request.
C19_KevNeverOlderThan24h ==
    [][ConsultStep /\ KevCacheFile \in DOMAIN files =>
        /\ clock - files[KevCacheFile].cached_at > 24 => net' # <<>>
        /\ clock - files[KevCacheFile].cached_at < 24
              => net' = <<>> /\ result' = files[KevCacheFile].cve_ids]_vars

\* the part of C19 that holds: the age of the cache file decides when the
\* singleton is created, that is at the first consultation of a process
C19_FreshnessAtCreation ==
    [][ConsultStep /\ KevCacheFile \in DOMAIN files /\ kev_checker = NoChecker =>
        /\ clock - files[KevCacheFile].cached_at > 24 => net' # <<>>
        /\ clock - files[KevCacheFile].cached_at < 24
              => net' = <<>> /\ result' = files[KevCacheFile].cve_ids]_vars

-----------------------------------------------------------------------------
(* The core operations together: storage calls, the KEV pass,
   build_vendor_data and the pipeline run on one database *)

\* records saved directly
CoreRecords == {BaseRecord(c, "v2", "d1") : c \in CveIds}

\* what build_vendor_data discovers for the vendor: one CVE at most
CoreDiscoveries == {d \in Discoveries : Len(d.order) <= 1}

\* the input files of the pipeline runs
CoreInputs == {<<"CVE-2024-0002">>, <<"CVE-2024-0002", "CVE-2024-0001">>}

NextCore ==
    \/ pc = "idle" /\ \E r \in CoreRecords : SaveCve(r, r.vendor_id)
    \/ /\ pc = "idle"
       /\ ~HasMapping(products, "CVE-2024-0001")
       /\ \E p \in ProductNames : AddProductMapping("CVE-2024-0001", p, "Acme")
    \/ pc = "idle" /\ UpdateVendorMetadata("v2", "Acme", 1, 1)
    \/ pc = "idle" /\ LoadAndProcessKev(CveIds)
    \/ \E u \in BOOLEAN, d \in CoreDiscoveries, ok \in SUBSET CveIds :
          BuildStart("v1", u, d, ok)
    \/ BuildReturn
    \/ BuildSaveNext
    \/ BuildFinish
    \/ \E input_ids \in CoreInputs : PipelineStart(input_ids, EmptyDict)
    \/ \E nvd \in {NoPayload, <<NvdResponse(ScenarioItem)>>} :
          PipelineProcess(nvd, NoPayload, <<>>)
    \/ PipelineFinish

SpecCore == InitStore /\ [][NextCore]_vars

-----------------------------------------------------------------------------
(* Claims about the core operations together *)

\* the vendors that have a row in vendor_metadata
StoredVendors == {row.vendor_id : row \in DOMAIN vendor_metadata}

\* C20: under every sequence of save_cve, add_product_mapping,
\* update_vendor_metadata, KEV pass, build_vendor_data and pipeline run, no
\* step removes a cve_id from the table cves or a vendor from vendor_metadata.
C20_NoCveNoVendorLost ==
    [][StoredIds \subseteq StoredIds' /\ StoredVendors \subseteq StoredVendors']_vars

\* both CVEs are stored, the row of one of them was just written over a row
\* that was there, and both vendors have their metadata
C20_Witness ==
    /\ pc = "idle"
    /\ StoredIds = CveIds
    /\ last.op = "save_cve"
    /\ last.replaced
    /\ StoredVendors = {"v1", "v2"}

-----------------------------------------------------------------------------
(* build_vendor_data statement by statement: every self.con.execute of
   save_cve and add_product_mapping is a statement of its own on a connection
   in autocommit mode, and the process can stop between any two of them *)

\* build_vendor_data up to the end of fetch_cve_details, as BuildStart, with
\* the position inside the loop body: stmt is the block of save_cve to run
\* next, todo the products of cve_mapping[cve_id] still to be associated
StmtStart(vendor_id, update_only, d, ok) ==
    /\ pc = "idle"
    /\ LET existing_cves == IF update_only
                            THEN get_existing_cve_ids(cves, vendor_id) ELSE {}
           cve_ids == NewCveIds(d.order, update_only, existing_cves)
           details_ == [i \in DOMAIN cve_ids |->
                           [cve_id |-> cve_ids[i],
                            data |-> FetchResult(cve_ids[i], cve_ids[i] \in ok)]]
       IN  /\ ok \subseteq Range(cve_ids)
           /\ run' = [vendor_id |-> vendor_id, vendor_name |-> VendorName(vendor_id),
                      update_only |-> update_only, existing_cves |-> existing_cves,
                      cve_mapping |-> d, cve_ids |-> cve_ids,
                      details |-> IF d.order = <<>> THEN <<>> ELSE details_,
                      i |-> 1, stmt |-> "cves", todo |-> {}]
           /\ pc' = IF d.order = <<>> THEN "no_cves"
                    ELSE IF update_only /\ cve_ids = <<>> THEN "up_to_date"
                    ELSE "saving"
    /\ last' = BuildLast
    /\ UNCHANGED <<storeVars, is_kev, kev_result, normVars, extractVars, envVars>>

\* the record of the iteration the run is in
StmtRecord ==
    BuildRecord(run.details[run.i].cve_id, run.vendor_id, run.details[run.i].data)

\* if "error" in data: continue
StmtSkip ==
    /\ pc = "saving"
    /\ run.i <= Len(run.details)
    /\ run.stmt = "cves"
    /\ "error" \in DOMAIN run.details[run.i].data
    /\ run' = [run EXCEPT !.i = run.i + 1]
    /\ UNCHANGED <<storeVars, pc, last, is_kev, kev_result, normVars, extractVars, envVars>>

\* save_cve, 1. Upsert CVE
StmtUpsertCve ==
    /\ pc = "saving"
    /\ run.i <= Len(run.details)
    /\ run.stmt = "cves"
    /\ "error" \notin DOMAIN run.details[run.i].data
    /\ cves' = UpsertCve(cves, StmtRecord, run.vendor_id)
    /\ run' = [run EXCEPT !.stmt = "weaknesses"]
    /\ UNCHANGED <<weaknesses, cve_references, products, vendor_metadata>>
    /\ UNCHANGED <<pc, last, is_kev, kev_result, normVars, extractVars, envVars>>

\* save_cve, 2. Update Weaknesses
StmtWeaknesses ==
    /\ pc = "saving"
    /\ run.stmt = "weaknesses"
    /\ weaknesses' = UpdateWeaknesses(weaknesses, StmtRecord)
    /\ run' = [run EXCEPT !.stmt = "references"]
    /\ UNCHANGED <<cves, cve_references, products, vendor_metadata>>
    /\ UNCHANGED <<pc, last, is_kev, kev_result, normVars, extractVars, envVars>>

\* save_cve, 3. Update References
StmtReferences ==
    /\ pc = "saving"
    /\ run.stmt = "references"
    /\ cve_references' = UpdateReferences(cve_references, StmtRecord)
    /\ run' = [run EXCEPT !.stmt = "products"]
    /\ UNCHANGED <<cves, weaknesses, products, vendor_metadata>>
    /\ UNCHANGED <<pc, last, is_kev, kev_result, normVars, extractVars, envVars>>

\* save_cve, 4. Update Products; then: if cve_id in cve_mapping
StmtProducts ==
    /\ pc = "saving"
    /\ run.stmt = "products"
    /\ products' = UpdateProducts(products, StmtRecord)
    /\ LET cve_id == run.details[run.i].cve_id
       IN  run' = [run EXCEPT !.stmt = "mapping",
                              !.todo = IF cve_id \in MappingKeys(run.cve_mapping)
                                       THEN run.cve_mapping.prods[cve_id] ELSE {}]
    /\ UNCHANGED <<cves, weaknesses, cve_references, vendor_metadata>>
    /\ UNCHANGED <<pc, last, is_kev, kev_result, normVars, extractVars, envVars>>

\* one storage.add_product_mapping(cve_id, prod, vendor_name) of the inner loop
StmtMapping ==
    /\ pc = "saving"
    /\ run.stmt = "mapping"
    /\ \E prod \in run.todo :
          /\ products' = AddMapping(products, run.details[run.i].cve_id, prod,
                                    run.vendor_name)
          /\ run' = [run EXCEPT !.todo = run.todo \ {prod}]
    /\ UNCHANGED <<cves, weaknesses, cve_references, vendor_metadata>>
    /\ UNCHANGED <<pc, last, is_kev, kev_result, normVars, extractVars, envVars>>

\* the inner loop is exhausted: next iteration of the outer loop
StmtNextCve ==
    /\ pc = "saving"
    /\ run.stmt = "mapping"
    /\ run.todo = {}
    /\ run' = [run EXCEPT !.i = run.i + 1, !.stmt = "cves"]
    /\ UNCHANGED <<storeVars, pc, last, is_kev, kev_result, normVars, extractVars, envVars>>

\* after the loop: get_existing_cve_ids, update_vendor_metadata
StmtFinish ==
    /\ pc = "saving"
    /\ run.stmt = "cves"
    /\ BuildFinish

\* the process stops while the run is saving (killed, or an exception leaves
\* build_vendor_data): what the statements wrote stays in the database
Crash ==
    /\ pc = "saving"
    /\ pc' = "idle"
    /\ run' = NoRun
    /\ UNCHANGED <<storeVars, last, is_kev, kev_result, normVars, extractVars, envVars>>

NextStmt ==
    \/ \E u \in BOOLEAN, d \in Discoveries, ok \in SUBSET CveIds :
          StmtStart("v1", u, d, ok)
    \/ BuildReturn
    \/ StmtSkip
    \/ StmtUpsertCve
    \/ StmtWeaknesses
    \/ StmtReferences
    \/ StmtProducts
    \/ StmtMapping
    \/ StmtNextCve
    \/ StmtFinish
    \/ Crash

SpecStmt == InitStore /\ [][NextStmt]_vars

-----------------------------------------------------------------------------
(* Claims about a run that stops part way, checked under SpecStmt *)

\* the vendor_id of the stored row of a CVE
VendorOf(c) == (CHOOSE row \in DOMAIN cves : row.cve_id = c).vendor_id

\* the CVE is stored as one complete save of build_vendor_data leaves it: its
\* cves row with the weakness rows and the reference rows of its record and
\* with the scraper associations of one discovered product set
Complete(c) ==
    LET r == BuildRecord(c, VendorOf(c), FetchResult(c, TRUE))
    IN  /\ RowsOf(weaknesses, c) = UpdateWeaknesses(EmptyBag, r)
        /\ RowsOf(cve_references, c) = UpdateReferences(EmptyBag, r)
        /\ \E P \in DiscoveryProducts :
              RowsOf(products, c) = AddMappings(EmptyBag, c, P, VendorName(VendorOf(c)))

\* C21: whenever no run is in progress, also after a run that stopped at any
\* point of its batch, every stored CVE is stored complete: its cves row
\* together with all its weakness, reference and product rows, the scraper
\* associations included; no CVE is stored with only part of its rows.
C21_StoredCvesComplete ==
    pc = "idle" => \A c \in StoredIds : Complete(c)

-----------------------------------------------------------------------------
(* Claims about failed detail fetches, checked under SpecBuild *)

\* the CVEs of a run whose entry in details is {"error": ...}
Failed(r) ==
    {r.details[i].cve_id :
        i \in {j \in DOMAIN r.details : "error" \in DOMAIN r.details[j].data}}

\* the CVEs of a run whose details were fetched
Succeeded(r) == Fetched(r) \ Failed(r)

\* the cve_ids stored for a vendor after the step
StoredAfter(vendor_id) == get_existing_cve_ids(cves', vendor_id)

\* the loop of the run passes one entry of details
LoopStep == pc = "saving" /\ run.i <= Len(run.details) /\ run'.i = run.i + 1

\* the run writes vendor_metadata and ends
FinishStep == pc = "saving" /\ pc' = "idle"

\* an update-only run starts
UpdateStartStep == pc = "idle" /\ pc' # "idle" /\ run'.update_only

\* no step of a run changes the stored record of a CVE whose fetch failed in
\* it, the CVEs whose fetch succeeded are stored once each for the vendor
\* when the run ends, and an update-only run requests every discovered CVE
\* that is not stored for the vendor
FailedSkippedRestSavedRetried ==
    /\ pc = "saving" =>
          \A c \in Failed(run) : StoredRecord(c)' = StoredRecord(c)
    /\ LoopStep /\ run.details[run.i].cve_id \in Succeeded(run) =>
          /\ BagCardinality(RowsOf(cves', run.details[run.i].cve_id)) = 1
          /\ run.details[run.i].cve_id \in StoredAfter(run.vendor_id)
    /\ FinishStep => Succeeded(run) \subseteq StoredAfter(run.vendor_id)
    /\ UpdateStartStep =>
          MappingKeys(run'.cve_mapping) \ StoredFor(run'.vendor_id)
              \subseteq Fetched(run')

\* C22 (as claimed): a CVE whose detail fetch failed in a run is not saved by
\* that run, the rest of the batch is saved, the CVE is absent from the
\* vendor's stored set when the run ends, a later update-only run requests
\* what is absent, and a CVE whose fetch succeeds is stored exactly once.
C22_FailedFetchAbsent ==
    [][/\ FailedSkippedRestSavedRetried
       /\ FinishStep =>
             \A c \in Failed(run) : c \notin StoredAfter(run.vendor_id)
    ]_vars

\* C22 (amended): a CVE whose detail fetch failed in a run is not saved by
\* that run and the rest of the batch is saved; if the CVE was not stored for
\* the vendor before the run (as in every update-only run that requests it)
\* it is absent from the vendor's stored set when the run ends, a later
\* update-only run requests what is absent, and a CVE whose fetch succeeds is
\* stored exactly once.
C22_FailedFetchNotSaved ==
    [][/\ FailedSkippedRestSavedRetried
       /\ pc = "saving" =>
             \A c \in Failed(run) :
                 c \notin StoredFor(run.vendor_id) =>
                     c \notin StoredAfter(run.vendor_id)
       /\ FinishStep /\ run.update_only =>
             \A c \in Failed(run) : c \notin StoredAfter(run.vendor_id)
    ]_vars

\* an update-only run that requested two CVEs is at the end of its loop: the
\* fetch of one failed and it is not stored, the other is stored
C22_Witness ==
    /\ pc = "saving"
    /\ run.update_only
    /\ run.i > Len(run.details)
    /\ \E c \in Failed(run) : c \notin StoredIds
    /\ \E c \in Succeeded(run) : c \in StoredFor(run.vendor_id)

-----------------------------------------------------------------------------
(* Claims about the owner of a CVE, checked under SpecBuild *)

\* the vendors for which get_existing_cve_ids returns the CVE after the step
OwnersAfter(c) == {v \in VendorIds : c \in get_existing_cve_ids(cves', v)}

\* the vendors for which get_cves_by_vendor returns the CVE after the step
ListedForAfter(c) ==
    {v \in VendorIds :
        \E row \in get_cves_by_vendor(cves', weaknesses', products', v) :
            row.cve.cve_id = c}

\* C23: after every step of every sequence of vendor runs each stored cve_id
\* has exactly one cves row and is returned by get_existing_cve_ids and by
\* get_cves_by_vendor for exactly one vendor; a save by the run of a vendor
\* makes that vendor the owner, whoever owned the CVE before, and leaves the
\* owner of every other CVE as it was.
C23_OneRowOneOwnerLastSaver ==
    [][/\ \A c \in StoredIds' :
             /\ BagCardinality(RowsOf(cves', c)) = 1
             /\ Cardinality(OwnersAfter(c)) = 1
             /\ ListedForAfter(c) = OwnersAfter(c)
       /\ LoopStep =>
             LET saved == run.details[run.i].cve_id
             IN  /\ saved \in Succeeded(run) => OwnersAfter(saved) = {run.vendor_id}
                 /\ \A c \in StoredIds \ {saved} :
                       RowsOf(cves', c) = RowsOf(cves, c)
    ]_vars

\* the run of v2 has saved a CVE at the end of its loop, and the run of v1
\* that counted at least one CVE for v1 owns none any more
C23_Witness ==
    /\ pc = "saving"
    /\ run.vendor_id = "v2"
    /\ run.i > Len(run.details)
    /\ Succeeded(run) # {}
    /\ Succeeded(run) \subseteq StoredFor("v2")
    /\ StoredFor("v1") = {}
    /\ \E row \in DOMAIN vendor_metadata :
          row.vendor_id = "v1" /\ row.cve_count >= 1

-----------------------------------------------------------------------------
(* Claims about runs that find nothing to do, checked under SpecBuild *)

\* the run that starts has nothing to fetch: the discovery found no CVE, or
\* the run is update-only and every discovered CVE is stored for the vendor
NothingNew(r) ==
    \/ MappingKeys(r.cve_mapping) = {}
    \/ r.update_only /\ MappingKeys(r.cve_mapping) \subseteq StoredFor(r.vendor_id)

\* C24: a run whose discovery finds no CVE, and an update-only run in which
\* every discovered CVE is already stored for the vendor, asks
\* fetch_cve_details for nothing and returns without changing a row of cves,
\* weaknesses, cve_references, products or vendor_metadata.
C24_NothingNewIsNoOp ==
    [][/\ (pc = "idle" /\ pc' # "idle" /\ NothingNew(run')) =>
             /\ pc' \in {"no_cves", "up_to_date"}
             /\ Fetched(run') = {}
             /\ UNCHANGED storeVars
       /\ pc \in {"no_cves", "up_to_date"} =>
             /\ pc' = "idle"
             /\ UNCHANGED storeVars
    ]_vars

\* an update-only run has found two CVEs, both stored for the vendor, and is
\* about to return
C24_Witness ==
    /\ pc = "up_to_date"
    /\ run.update_only
    /\ MappingKeys(run.cve_mapping) = CveIds
    /\ CveIds \subseteq StoredFor(run.vendor_id)
    /\ run.details = <<>>

-----------------------------------------------------------------------------
(* The two pipelines on one database: runs of build_vendor_data for one
   vendor and runs of the file pipeline, with and without scraped data *)

NextOrder ==
    \/ \E u \in BOOLEAN, d \in Discoveries, ok \in SUBSET CveIds :
          BuildStart("v1", u, d, ok)
    \/ BuildReturn
    \/ BuildSaveNext
    \/ BuildFinish
    \/ \E input_ids \in InputLists, scraped_data \in ScrapedMaps :
          PipelineStart(input_ids, scraped_data)
    \/ \E nvd \in {NoPayload, <<NvdResponse(ScenarioItem)>>},
          extra_products \in SeqsUpTo(ProductNames, Cardinality(ProductNames)) :
          PipelineProcess(nvd, NoPayload, extra_products)
    \/ PipelineFinish

SpecOrder == InitStore /\ [][NextOrder]_vars

-----------------------------------------------------------------------------
(* Claims about the order of processing, checked under SpecOrder *)

\* the pipeline's loop passes one id
PipelineStep == pc = "pipeline" /\ run.idx <= Len(run.cve_ids) /\ run'.idx = run.idx + 1

\* the ids of a run of the pipeline in the order they were supplied and
\* scraped: the lines of the input file, then the keys of the scraped map in
\* one of the orders the dict can list them
SuppliedOrders(r) ==
    {r.input_ids \o q : q \in Orderings(DOMAIN r.scraped_data)}

\* the ids a run of build_vendor_data has to process, in the order of
\* discovery: the keys of cve_mapping, without the stored ones when update-only
DiscoveredOrder(r) ==
    SelectSeq(r.cve_mapping.order,
              LAMBDA c : ~r.update_only \/ c \notin r.existing_cves)

\* the id at a position of a list, None past its end
At(ids, i) == IF i \in DOMAIN ids THEN ids[i] ELSE None

\* the vendor pipeline passes the discovered ids one by one in their order
VendorRunInOrder ==
    /\ pc = "saving" =>
          /\ Len(run.details) = Len(DiscoveredOrder(run))
          /\ run.i <= Len(run.details) =>
                run.details[run.i].cve_id = DiscoveredOrder(run)[run.i]
    /\ FinishStep => run.i = Len(DiscoveredOrder(run)) + 1

\* C25 (as claimed): the i-th id processed by a run is the i-th id supplied
\* or discovered, nothing reordered and no duplicate removed, in the file
\* pipeline with or without scraped data and in the vendor pipeline.
C25_ProcessedInSuppliedOrder ==
    [][/\ VendorRunInOrder
       /\ PipelineStep =>
             \E ids \in SuppliedOrders(run) :
                 /\ Len(run.cve_ids) = Len(ids)
                 /\ last'.cve_id = ids[run.idx]
    ]_vars

\* C25 (amended): the i-th id processed is the i-th id supplied or
\* discovered, nothing reordered and no duplicate removed, in the file
\* pipeline without scraped data and in the vendor pipeline; with scraped
\* data the file pipeline processes the supplied and scraped ids once each in
\* sorted order.
C25_ProcessedInOrderUnlessScraped ==
    [][/\ VendorRunInOrder
       /\ PipelineStep /\ DOMAIN run.scraped_data = {} =>
             /\ Len(run.cve_ids) = Len(run.input_ids)
             /\ last'.cve_id = run.input_ids[run.idx]
       /\ PipelineStep /\ DOMAIN run.scraped_data # {} =>
             /\ last'.cve_id = run.cve_ids[run.idx]
             /\ Range(run.cve_ids) = Range(run.input_ids) \cup DOMAIN run.scraped_data
             /\ \A i, j \in DOMAIN run.cve_ids :
                   i < j => \E a, b \in DOMAIN CveOrder :
                               /\ a < b
                               /\ CveOrder[a] = run.cve_ids[i]
                               /\ CveOrder[b] = run.cve_ids[j]
    ]_vars

\* a run of the file pipeline without scraped data was given the same id
\* twice and has processed it twice
C25_Witness ==
    /\ pc = "pipeline"
    /\ DOMAIN run.scraped_data = {}
    /\ Len(run.input_ids) = 2
    /\ run.input_ids[1] = run.input_ids[2]
    /\ run.idx = 3
    /\ last.op = "save_cve"
    /\ last.cve_id = run.input_ids[2]

-----------------------------------------------------------------------------
(* Claims about the product associations of a run, checked under SpecBuild *)

\* the CVEs the run has saved so far
SavedSoFar(r) ==
    {r.details[k].cve_id : k \in {j \in DOMAIN r.details : j < r.i}} \ Failed(r)

\* one row (c, '', vendor_name, p, '*') per product p discovered for c
DiscoveredRows(r, c) ==
    OnceEach({[cve_id |-> c, raw_cpe |-> <<>>, vendor |-> <<r.vendor_name>>,
               product |-> p, version |-> <<"*">>] : p \in r.cve_mapping.prods[c]})

\* C26: from the moment a run has saved a CVE c to the end of the run the
\* products rows of c are exactly one row (c, '', vendor_name, p, '*') per
\* product p discovered for c: no later step of the run deletes or adds one,
\* and rows that earlier runs left for c are gone.
C26_AssociationsExactlyDiscovered ==
    [][pc = "saving" =>
          \A c \in SavedSoFar(run) :
              /\ RowsOf(products, c) = DiscoveredRows(run, c)
              /\ RowsOf(products', c) = RowsOf(products, c)
    ]_vars

\* a full run of v2 is at the end of its loop: it has saved two CVEs, one of
\* them under two products, that were stored for v1 with their associations
C26_Witness ==
    /\ pc = "saving"
    /\ ~run.update_only
    /\ run.vendor_id = "v2"
    /\ run.i > Len(run.details)
    /\ SavedSoFar(run) = CveIds
    /\ \E c \in CveIds : Cardinality(run.cve_mapping.prods[c]) = 2
    /\ \E row \in DOMAIN vendor_metadata :
          row.vendor_id = "v1" /\ row.cve_count = 2

-----------------------------------------------------------------------------
(* Claims about vendor_metadata between runs, checked under SpecBuild *)

\* C27: whenever no run is in progress, the cve_count of every
\* vendor_metadata row is the number of cves rows whose vendor_id is that
\* vendor, whatever runs of whatever vendors have completed.
C27_CveCountIsStoredCount ==
    pc = "idle" =>
        \A row \in DOMAIN vendor_metadata :
            row.cve_count = Cardinality(StoredFor(row.vendor_id))

-----------------------------------------------------------------------------
(* Claims about the KEV flag across saves, checked under SpecKev *)

\* C28: a stored CVE that is flagged is_kev stays flagged under every
\* operation, a later save_cve of the same cve_id included, and after the KEV
\* pass of load_and_process every stored CVE of the KEV set is flagged.
C28_KevFlagKeptAndComplete ==
    [][/\ is_kev \cap StoredIds \subseteq is_kev'
       /\ last'.op = "update_kev_status" =>
             StoredIds' \cap kev_result'.kev_cve_ids \subseteq is_kev'
    ]_vars

-----------------------------------------------------------------------------
(* Claims about the vendors of stored CVEs, checked under SpecStmt *)

\* Storage.get_fetched_vendors(): the vendor_ids of the vendor_metadata rows
get_fetched_vendors(t) == {row.vendor_id : row \in DOMAIN t}

\* C29: whenever no run is in progress, also after a run that stopped after
\* saving some of its CVEs, every vendor_id that owns a cves row saved by
\* build_vendor_data has a vendor_metadata row and so is returned by
\* get_fetched_vendors.
C29_OwnersHaveMetadata ==
    pc = "idle" =>
        \A row \in DOMAIN cves :
            row.vendor_id \in get_fetched_vendors(vendor_metadata)

-----------------------------------------------------------------------------
(* The file pipeline with its fetch client: every iteration asks
   fetch_nvd_cve and fetch_v5_cve, which read and fill the cache directory,
   and hands what they return to normalize (pipeline.py, data_fetcher.py) *)

\* a CVE id of the pipeline as the lexemes the fetch client splits it into
IdLexemes(cve_id) ==
    CASE cve_id = "CVE-2024-0001" -> <<"CVE", "-", "2024", "-", "0", "0", "0", "1">>
      [] cve_id = "CVE-2024-0002" -> <<"CVE", "-", "2024", "-", "0", "0", "0", "2">>

\* what the NVD answers in a pipeline run: an error, the record, an empty
\* vulnerabilities list, a body without the list
FileNvdResponses ==
    {Response(0, NoPayload), Response(200, <<NvdResponse(ScenarioItem)>>),
     Response(200, <<[vulnerabilities |-> <<>>]>>),
     Response(200, <<[message |-> "no such CVE"]>>)}

\* what the CVE list answers in a pipeline run
FileV5Responses ==
    {Response(404, NoPayload), Response(200, <<V5Record>>), Response(200, <<EmptyDict>>)}

\* DataFetcher.fetch_nvd_cve as a function of the cache directory and of the
\* answer of the NVD: what it returns, the directory and the requests made
fetch_nvd_cve(fs, cve_id, nvd_api_key, response) ==
    LET cached == load_from_cache(fs, cve_id, "nvd")
        asked == <<SleepEvent(NvdDelay(nvd_api_key)), GetEvent(NvdUrl(cve_id))>>
    IN  IF PayloadTruthy(cached)
        THEN [result |-> cached, files |-> fs, net |-> <<>>]
        ELSE IF Raises(response)
        THEN [result |-> NoPayload, files |-> fs, net |-> asked]
        ELSE IF HasVulnerabilities(response.body)
        THEN [result |-> response.body,
              files |-> save_to_cache(fs, cve_id, "nvd", response.body),
              net |-> asked]
        ELSE [result |-> NoPayload, files |-> fs, net |-> asked]

\* DataFetcher.fetch_v5_cve likewise
fetch_v5_cve(fs, cve_id, response) ==
    LET cached == load_from_cache(fs, cve_id, "v5")
    IN  IF PayloadTruthy(cached)
        THEN [result |-> cached, files |-> fs, net |-> <<>>]
        ELSE IF Len(Split(cve_id, "-")) # 3
        THEN [result |-> NoPayload, files |-> fs, net |-> <<>>]
        ELSE IF Raises(response)
        THEN [result |-> NoPayload, files |-> fs, net |-> <<GetEvent(V5Url(cve_id))>>]
        ELSE [result |-> response.body,
              files |-> save_to_cache(fs, cve_id, "v5", response.body),
              net |-> <<GetEvent(V5Url(cve_id))>>]

\* nvd_data["vulnerabilities"][0] raises IndexError
FirstVulnerabilityMissing(nvd) ==
    NvdProcessed(nvd) /\ nvd[1].vulnerabilities = <<>>

\* the pipeline before a run, beside an empty cache directory; result holds
\* the answers the sources gave in the last iteration
InitFile ==
    /\ InitTables
    /\ last = [op |-> "init", cve_id |-> None, replaced |-> FALSE, record |-> None]
    /\ pc = "idle"
    /\ run = NoRun
    /\ files = <<>>
    /\ net = <<>>
    /\ clock = 0
    /\ kev_checker = None
    /\ result = [nvd |-> Response(0, NoPayload), v5 |-> Response(404, NoPayload)]

\* main up to the process loop, without --scrape
FileStart(input_ids) ==
    /\ pc = "idle"
    /\ run' = [cve_ids |-> input_ids, scraped_data |-> EmptyDict,
               input_ids |-> input_ids, idx |-> 1]
    /\ pc' = "pipeline"
    /\ last' = [op |-> "pipeline", cve_id |-> None, replaced |-> FALSE, record |-> None]
    /\ UNCHANGED <<storeVars, is_kev, kev_result, normVars, extractVars, envVars>>

\* one iteration of the process loop: fetch from both sources, skip or
\* normalize and store; an exception of normalize ends the run
FileProcess(nvd_response, v5_response) ==
    /\ pc = "pipeline"
    /\ run.idx <= Len(run.cve_ids)
    /\ LET cve_id == run.cve_ids[run.idx]
           n == fetch_nvd_cve(files, IdLexemes(cve_id), None, nvd_response)
           v == fetch_v5_cve(n.files, IdLexemes(cve_id), v5_response)
           r == normalize(cve_id, n.result, v.result)
       IN  /\ files' = v.files
           /\ net' = n.net \o v.net
           /\ result' = [nvd |-> nvd_response, v5 |-> v5_response]
           /\ nvd_data' = n.result
           /\ v5_data' = v.result
           /\ IF ~PayloadTruthy(n.result) /\ ~PayloadTruthy(v.result)
              THEN /\ last' = [op |-> "skip", cve_id |-> cve_id, replaced |-> FALSE,
                               record |-> None]
                   /\ pc' = pc
                   /\ UNCHANGED <<storeVars, record>>
              ELSE IF FirstVulnerabilityMissing(n.result)
              THEN /\ last' = [op |-> "IndexError", cve_id |-> cve_id,
                               replaced |-> FALSE, record |-> None]
                   /\ pc' = "raised"
                   /\ UNCHANGED <<storeVars, record>>
              ELSE /\ record' = r
                   /\ cves' = UpsertCve(cves, r, None)
                   /\ weaknesses' = UpdateWeaknesses(weaknesses, r)
                   /\ cve_references' = UpdateReferences(cve_references, r)
                   /\ products' = UpdateProducts(products, r)
                   /\ last' = [op |-> "save_cve", cve_id |-> cve_id,
                               replaced |-> HasMapping(products, cve_id), record |-> r]
                   /\ pc' = pc
                   /\ UNCHANGED vendor_metadata
    /\ run' = [run EXCEPT !.idx = run.idx + 1]
    /\ UNCHANGED <<is_kev, kev_result, extractVars, clock, kev_checker>>

NextFile ==
    \/ \E input_ids \in InputLists : FileStart(input_ids)
    \/ \E nvd_response \in FileNvdResponses, v5_response \in FileV5Responses :
          FileProcess(nvd_response, v5_response)
    \/ PipelineFinish

SpecFile == InitFile /\ [][NextFile]_vars

-----------------------------------------------------------------------------
(* Claims about the payloads of the file pipeline, checked under SpecFile *)

\* an iteration of the process loop
FileStep == pc = "pipeline" /\ run.idx <= Len(run.cve_ids) /\ run'.idx = run.idx + 1

\* the CVE of the iteration has a record at the source: in the cache
\* directory, or in the answer the source gives
FoundAt(source, op, response) ==
    \/ PayloadTruthy(load_from_cache(files, IdLexemes(run.cve_ids[run.idx]), source))
    \/ /\ ~NoRecordAnswer(op, response)
       /\ PayloadTruthy(response.body)

\* C30: every NVD payload an iteration hands to normalize, fetched or read
\* from the cache, has a non-empty vulnerabilities list, so that the
\* iteration does not end in IndexError; a CVE that neither source has a
\* record of is skipped and nothing is stored for it, and a CVE that one
\* source has a record of is normalized and saved with the flag of that source.
C30_PayloadsHaveFirstVulnerability ==
    [][FileStep =>
        LET cve_id == run.cve_ids[run.idx]
            fromNvd == FoundAt("nvd", "fetch_nvd_cve", result'.nvd)
            fromV5 == FoundAt("v5", "fetch_v5_cve", result'.v5)
        IN  /\ PayloadTruthy(nvd_data') =>
                  /\ "vulnerabilities" \in DOMAIN nvd_data'[1]
                  /\ nvd_data'[1].vulnerabilities # <<>>
            /\ pc' = "pipeline"
            /\ PayloadTruthy(nvd_data') <=> fromNvd
            /\ PayloadTruthy(v5_data') <=> fromV5
            /\ ~fromNvd /\ ~fromV5 =>
                  /\ last'.op = "skip"
                  /\ UNCHANGED storeVars
            /\ fromNvd \/ fromV5 =>
                  /\ last'.op = "save_cve"
                  /\ cve_id \in StoredIds'
                  /\ record'.cve_id = cve_id
                  /\ (<<"nvd">> \in Range(Split(record'.source_flags, ","))) <=> fromNvd
                  /\ (<<"v5">> \in Range(Split(record'.source_flags, ","))) <=> fromV5
    ]_vars

\* an iteration has found the NVD record of its CVE in the cache directory,
\* without a request to the NVD, while the CVE list had no record, and has
\* saved the CVE with the flag nvd alone
C30_Witness ==
    /\ pc = "pipeline"
    /\ last.op = "save_cve"
    /\ PayloadTruthy(nvd_data)
    /\ nvd_data[1].vulnerabilities # <<>>
    /\ ~PayloadTruthy(v5_data)
    /\ net # <<>>
    /\ \A i \in DOMAIN net : net[i].op # "sleep"
    /\ record.source_flags = <<"nvd">>
    /\ last.cve_id \in StoredIds

====
